---- MODULE Spec2Model ----
(***************************************************************************)
(* GDK: the agent workflow controller (src/src/agent.rs) over an abstract  *)
(* GitWorkflow backend (src/src/lib.rs, src/src/core.rs), and the          *)
(* concurrent quality store (src/src/performance.rs).                      *)
(*                                                                         *)
(* Conventions                                                             *)
(*  - Option<T> is a sequence of length at most one: None is << >> and     *)
(*    Some(x) is << x >>.                                                  *)
(*  - Commit hashes are numbers: 0 is the commit HEAD names when the       *)
(*    controller is built, the n-th commit created has hash n.             *)
(*  - f64 rates and scores in [0,1] are written in hundredths (0..100).    *)
(*  - Uuid::new_v4() of a RevertPoint is a fresh number; the uuids and     *)
(*    timestamps of sessions and actions are not modelled.                 *)
(***************************************************************************)
EXTENDS Integers, Sequences, FiniteSets, TLC

\* ------------------------------------------------------------------ bounds
\* Number of controller calls explored when every operation is offered.
MaxCalls == 3
\* Number of controller calls explored when only the checkpoint operations
\* and validate_and_commit are offered.
MaxStackCalls == 6
\* Number of controller calls explored around get_agent_statistics.
MaxStatsCalls == 5
\* Number of store calls and clock ticks explored.
MaxStoreCalls == 4

\* Number of store calls and clock ticks explored on one file.
MaxCacheCalls == 8

\* Number of process_commits_parallel calls made, all of which may overlap.
MaxProcCalls == 34

\* Length of the commit slices given to process_commits_parallel, and number
\* of calls made one after the other.
MaxCommits == 3
MaxParCalls == 1

\* Threads of the latest commit, commits of a short history, and length of
\* the run of equal commits in a long one.
MaxThreads == 2
MaxShortHistory == 3
MaxRun == 9

\* Commits fed to one StreamingAnalyzer.
MaxSamples == 5
\* infinite_monkey_iteration calls made on one GitWorkflowManager.
MaxGitCalls == 1
\* update_threads_batch calls made with long slices.
MaxBatchCalls == 3
\* ThreadManager calls made on one file.
MaxThreadCalls == 53

\* ------------------------------------------------------- program constants
DefaultMaxSpiralAttempts == 100
\* BatchProcessor.batch_size
BatchSize == 50
\* update_threads_batch: Duration::from_millis(100)
FlushIntervalMs == 100
\* get_thread_cached: Duration::from_secs(60)
CacheTtlMs == 60000
\* add_thread_state: the number of states a thread's history keeps
HistoryCap == 50

\* ---------------------------------------------------------- input domains
Agents == {"agent-1", "agent-2"}
\* test_pass_rate values the backend's analysis reports, in hundredths.
Rates == {40, 90}
\* target_convergence values callers pass, in hundredths.
Targets == {80}
\* max_attempts values bin/main.rs's Spiral command writes into a session.
Overrides == {0, 1, 2}
Commits == {"c1", "c2", "c3"}
Paths == {"a.rs", "b.rs"}
\* Score quadruples (lint, type check, coverage, functionality) of the updates.
ScoreValues == {<<20, 30, 10, 20>>, <<95, 90, 100, 95>>}
Readers == {"r1"}
\* Amounts of time (ms) that pass between steps.
TickSteps == {100, 101, 59899}

VARIABLES
    active_sessions,   \* AgentWorkflowController.active_sessions: agent_id -> AgentSession
    action_history,    \* AgentWorkflowController.action_history: Vec<AgentAction>
    wf_head,           \* backend: hash of the commit the working tree is at
    wf_commit_count,   \* backend: number of commits created (commit_history.len())
    wf_point_count,    \* backend: number of RevertPoints handed out (snapshot ids)
    call,              \* the execute_infinite_monkey_workflow frame, when one is running
    obs,               \* the last (or running) call: operation, agent, result, backend calls made
    calls,             \* number of controller calls made so far
    budget,            \* number of calls the run explores
    threads,           \* ConcurrentThreadManager.threads: file_path -> FileThread
    quality_cache,     \* ConcurrentThreadManager.quality_cache: file_path -> QualitySnapshot
    pending_updates,   \* BatchProcessor.pending_updates
    last_flush,        \* BatchProcessor.last_flush (ms)
    now,               \* the monotonic clock Instant::now() reads (ms)
    writer,            \* the update_threads_batch call holding the batch_processor lock
    reader,            \* the get_thread_cached call of each reading task
    cpu_count,         \* num_cpus::get()
    concurrency_limit, \* ParallelCommitProcessor.concurrency_limit: permits available
    pool_queued,       \* process_commits_parallel calls whose job waits for a pool thread
    pool_running,      \* process_commits_parallel calls whose job runs on the pool
    par,               \* one process_commits_parallel call, chunk by chunk
    analyzer,          \* ConvergenceAnalyzer: its configuration
    conv,              \* the last ConvergenceAnalyzer call: function, input, output
    classified,        \* the last ThreadColor::from_scores call: scores, color, to_score
    stream,            \* StreamingAnalyzer: window_size, stats_state, the last StreamingResult
    thread_manager,    \* ThreadManager: active_threads, and every state each thread was given
    git_workflow       \* GitWorkflowManager: commit_history, HEAD, the infinite_monkey_iteration frame

ctl_vars == <<active_sessions, action_history, wf_head, wf_commit_count,
              wf_point_count, call, obs>>

store_vars == <<threads, quality_cache, pending_updates, last_flush, now,
                writer, reader>>

proc_vars == <<cpu_count, concurrency_limit, pool_queued, pool_running, par>>

\* The components a controller or store step does not touch.
conv_vars == <<analyzer, conv>>

\* The components exercised on their own.
unit_vars == <<classified, stream, thread_manager, git_workflow>>

lib_vars == <<proc_vars, conv_vars, unit_vars>>

vars == <<ctl_vars, store_vars, lib_vars, calls, budget>>

None == << >>
Some(x) == << x >>

\* ConvergenceMetrics, as far as the controller reads it.
Metrics == [test_pass_rate : Rates, is_converged : BOOLEAN]

Idle == [pc |-> "idle"]

\* ------------------------------------------------------------ the backend
\* GitWorkflow::create_revert_point: a point at the current HEAD with a fresh id.
create_revert_point == [commit_hash |-> wf_head, snapshot_id |-> wf_point_count + 1]

\* GitWorkflow::create_commit_node: the hash of the commit it creates on HEAD.
create_commit_node == wf_commit_count + 1

\* GitWorkflow::revert_to_point: the commit a hard reset to the point leaves HEAD at.
revert_to_point(point) == point.commit_hash

\* One backend call as the observer records it.
WfCall(op, arg) == [op |-> op, arg |-> arg]

\* --------------------------------------------------------------- sessions
HasSession(agent_id) == agent_id \in DOMAIN active_sessions

\* start_agent_session: the AgentSession it builds.
NewSession ==
    [current_commit |-> None,
     revert_stack |-> << >>,
     convergence_history |-> << >>,
     spiral_attempts |-> 0,
     max_spiral_attempts |-> DefaultMaxSpiralAttempts]

\* Faulty variant: an existing entry is kept (entry().or_insert()).
InsertIfAbsent(map, key, value) ==
    [k \in DOMAIN map \cup {key} |-> IF k \in DOMAIN map THEN map[k] ELSE value]

\* HashMap::insert
Insert(map, key, value) ==
    [k \in DOMAIN map \cup {key} |-> IF k = key THEN value ELSE map[k]]

\* Faulty variant: the record is attributed to the system, not to the agent.
CompletedActionOfSystem(agent_id, action_type, commit_before, success, commit_after) ==
    [agent_id |-> "gdk-system",
     action_type |-> action_type,
     commit_before |-> commit_before,
     commit_after |-> commit_after,
     success |-> success]

\* complete_action: the record pushed onto action_history. log_action fills
\* commit_before from the session's current_commit at the time it is called.
CompletedAction(agent_id, action_type, commit_before, success, commit_after) ==
    [agent_id |-> agent_id,
     action_type |-> action_type,
     commit_before |-> commit_before,
     commit_after |-> commit_after,
     success |-> success]

\* What a call is observed to do: its result (status, value), the backend calls
\* it has made, and for the loop what it found on entry.
Result(op, agent_id, status, value, wf_calls) ==
    [op |-> op, agent |-> agent_id, status |-> status, value |-> value,
     wf_calls |-> wf_calls, entry |-> None]

\* --------------------------------------------------------------- actions
\* One step that enters a controller operation.
Enter ==
    /\ call.pc = "idle"
    /\ calls < budget
    /\ calls' = calls + 1
    /\ UNCHANGED <<budget, store_vars, lib_vars>>

WfUnchanged == UNCHANGED <<wf_head, wf_commit_count, wf_point_count>>

\* get_session / get_session_mut / log_action fail alike when the agent has no
\* session: nothing is written, the error names the agent.
NoSessionError(op, agent_id, wf_calls) ==
    /\ obs' = Result(op, agent_id, "NoSession", None, wf_calls)
    /\ UNCHANGED <<active_sessions, action_history, call>>

start_agent_session(agent_id) ==
    /\ Enter
    /\ active_sessions' = Insert(active_sessions, agent_id, NewSession)
    /\ obs' = Result("start_agent_session", agent_id, "Ok", None, << >>)
    /\ UNCHANGED <<action_history, call>>
    /\ WfUnchanged

\* bin/main.rs, Commands::Spiral: the caller overrides the session's limit.
\* Not a controller operation: it writes the pub field directly.
set_max_spiral_attempts(agent_id, max_attempts) ==
    /\ call.pc = "idle"
    /\ HasSession(agent_id)
    /\ active_sessions' = [active_sessions EXCEPT
                             ![agent_id].max_spiral_attempts = max_attempts]
    /\ UNCHANGED <<action_history, call, obs, calls, budget, store_vars, lib_vars>>
    /\ WfUnchanged

\* Faulty variant: the limit test off by one.
LimitReachedAtLimit(spiral_attempts, max_attempts) == spiral_attempts >= max_attempts

\* Faulty variant: one attempt more than the maximum is let through.
LimitReachedLate(spiral_attempts, max_attempts) == spiral_attempts > max_attempts + 1

\* Line 272: the limit test of the loop.
LimitReached(spiral_attempts, max_attempts) == spiral_attempts > max_attempts

\* Faulty variant: either conjunct of the success condition is enough.
ConvergenceMetEither(convergence, target_convergence) ==
    convergence.test_pass_rate >= target_convergence \/ convergence.is_converged

\* Line 310: the success condition of the loop.
ConvergenceMet(convergence, target_convergence) ==
    convergence.test_pass_rate >= target_convergence /\ convergence.is_converged

\* Faulty variant: a failed iteration reverts to the oldest checkpoint of the stack.
IterationRevertOldest(frame, session) == session.revert_stack[1]

\* Line 327: the point a failed iteration reverts to.
IterationRevertPoint(frame, session) == frame.initial_revert_point

\* Faulty variant: the anchor replaces the checkpoint on top of the stack.
PushAnchorOverTop(revert_stack, point) ==
    IF revert_stack = << >> THEN << point >>
    ELSE Append(SubSeq(revert_stack, 1, Len(revert_stack) - 1), point)

\* Line 260: session.revert_stack.push(initial_revert_point.clone())
PushAnchor(revert_stack, point) == Append(revert_stack, point)

\* execute_infinite_monkey_workflow, lines 253-261: the anchor is created by the
\* backend before the session is looked up, and pushed.
\* The model runs the loop only on sessions whose limit was overridden.
execute_infinite_monkey_workflow(agent_id, target_convergence) ==
    /\ Enter
    /\ HasSession(agent_id) =>
           active_sessions[agent_id].max_spiral_attempts \in Overrides
    /\ \E wf_ok \in BOOLEAN :
         LET op == "execute_infinite_monkey_workflow"
             point == create_revert_point
             made == << WfCall("create_revert_point", Some(point)) >>
         IN IF ~wf_ok
            THEN /\ obs' = Result(op, agent_id, "BackendError", None,
                                  << WfCall("create_revert_point", None) >>)
                 /\ UNCHANGED <<active_sessions, action_history, call>>
                 /\ WfUnchanged
            ELSE /\ wf_point_count' = wf_point_count + 1
                 /\ UNCHANGED <<wf_head, wf_commit_count>>
                 /\ IF ~HasSession(agent_id)
                    THEN NoSessionError(op, agent_id, made)
                    ELSE /\ active_sessions' =
                              [active_sessions EXCEPT ![agent_id].revert_stack =
                                                        PushAnchor(@, point)]
                         /\ call' = [pc |-> "loop",
                                     agent |-> agent_id,
                                     target_convergence |-> target_convergence,
                                     initial_revert_point |-> point]
                         /\ obs' = [Result(op, agent_id, "Running", None, made)
                                      EXCEPT !.entry =
                                        Some([spiral_attempts |->
                                                active_sessions[agent_id].spiral_attempts,
                                              max_spiral_attempts |->
                                                active_sessions[agent_id].max_spiral_attempts,
                                              history |->
                                                Len(active_sessions[agent_id].convergence_history),
                                              target_convergence |-> target_convergence])]
                         /\ UNCHANGED action_history

\* One pass through the loop body, lines 263-328. fail names the backend call
\* that returns Err in this pass, if any.
monkey_iteration(fail, convergence) ==
    /\ call.pc = "loop"
    /\ LET agent_id == call.agent
           session == active_sessions[agent_id]
           spiral_attempts == session.spiral_attempts + 1
           counted == [session EXCEPT !.spiral_attempts = spiral_attempts]
           hash == create_commit_node
           committed == [counted EXCEPT !.current_commit = Some(hash)]
           analysed == [committed EXCEPT !.convergence_history =
                                            Append(@, convergence)]
           action == CompletedAction(agent_id, "InfiniteMonkeyIteration",
                                     session.current_commit, TRUE, Some(hash))
           c1 == Append(obs.wf_calls, WfCall("create_commit_node", None))
           c2 == Append(c1, WfCall("analyze_convergence", None))
           anchor == IterationRevertPoint(call, session)
           c3 == Append(c2, WfCall("revert_to_point", Some(anchor)))
           Return(status, value, wf_calls) ==
               /\ obs' = [obs EXCEPT !.status = status, !.value = value,
                                      !.wf_calls = wf_calls]
               /\ call' = Idle
       IN /\ UNCHANGED <<wf_point_count, calls, budget, store_vars, lib_vars>>
          /\ IF LimitReached(spiral_attempts, session.max_spiral_attempts)
             THEN /\ fail = "none" /\ convergence = CHOOSE m \in Metrics : TRUE
                  /\ active_sessions' =
                         [active_sessions EXCEPT ![agent_id] = counted]
                  /\ Return("ConvergenceError",
                            Some([iterations |-> spiral_attempts,
                                  last_score |-> 0,
                                  threshold |-> call.target_convergence]),
                            obs.wf_calls)
                  /\ UNCHANGED <<action_history, wf_head, wf_commit_count>>
             ELSE IF fail = "create_commit_node"
             THEN /\ convergence = CHOOSE m \in Metrics : TRUE
                  /\ active_sessions' =
                         [active_sessions EXCEPT ![agent_id] = counted]
                  /\ Return("BackendError", None, c1)
                  /\ UNCHANGED <<action_history, wf_head, wf_commit_count>>
             ELSE IF fail = "analyze_convergence"
             THEN /\ convergence = CHOOSE m \in Metrics : TRUE
                  /\ active_sessions' =
                         [active_sessions EXCEPT ![agent_id] = committed]
                  /\ wf_head' = hash
                  /\ wf_commit_count' = wf_commit_count + 1
                  /\ Return("BackendError", None, c2)
                  /\ UNCHANGED action_history
             ELSE /\ active_sessions' =
                         [active_sessions EXCEPT ![agent_id] = analysed]
                  /\ action_history' = Append(action_history, action)
                  /\ wf_commit_count' = wf_commit_count + 1
                  /\ IF ConvergenceMet(convergence, call.target_convergence)
                     THEN /\ fail = "none"
                          /\ wf_head' = hash
                          /\ Return("Ok", Some(hash), c2)
                     ELSE IF fail = "revert_to_point"
                     THEN /\ wf_head' = hash
                          /\ Return("BackendError", None, c3)
                     ELSE /\ wf_head' = revert_to_point(anchor)
                          /\ obs' = [obs EXCEPT !.wf_calls = c3]
                          /\ UNCHANGED call

IterationFailures ==
    {"none", "create_commit_node", "analyze_convergence", "revert_to_point"}

\* create_spiral_checkpoint, lines 347-364.
create_spiral_checkpoint(agent_id) ==
    /\ Enter
    /\ UNCHANGED <<call, wf_head, wf_commit_count>>
    /\ LET op == "create_spiral_checkpoint"
           made == << WfCall("create_revert_point", Some(create_revert_point)) >>
       IN IF ~HasSession(agent_id)
          THEN NoSessionError(op, agent_id, << >>) /\ UNCHANGED wf_point_count
          ELSE \E wf_ok \in BOOLEAN :
             LET session == active_sessions[agent_id]
                 revert_point == create_revert_point
             IN IF ~wf_ok
                THEN /\ obs' = Result(op, agent_id, "BackendError", None,
                                      << WfCall("create_revert_point", None) >>)
                     /\ UNCHANGED <<active_sessions, action_history, wf_point_count>>
                ELSE /\ wf_point_count' = wf_point_count + 1
                     /\ active_sessions' =
                            [active_sessions EXCEPT ![agent_id].revert_stack =
                                                      Append(@, revert_point)]
                     /\ action_history' =
                            Append(action_history,
                                   CompletedAction(agent_id, "RevertToPoint",
                                                   session.current_commit, TRUE,
                                                   Some(revert_point.commit_hash)))
                     /\ obs' = Result(op, agent_id, "Ok", Some(revert_point), made)

\* Faulty variant: the revert takes the oldest checkpoint.
PopOldest(revert_stack) == revert_stack[1]

\* Faulty variant: the point is read and left on the stack.
PopNothing(revert_stack) == revert_stack

\* Vec::pop on the revert stack, lines 385-387: the point taken and the stack left.
PopPoint(revert_stack) == revert_stack[Len(revert_stack)]
PopRest(revert_stack) == SubSeq(revert_stack, 1, Len(revert_stack) - 1)

\* Faulty variant: the empty-stack error is logged as a failed action.
NoRevertPointsLogged(op, agent_id) ==
    /\ obs' = Result(op, agent_id, "NoRevertPoints", None, << >>)
    /\ action_history' =
           Append(action_history,
                  CompletedAction(agent_id, "RevertToPoint",
                                  active_sessions[agent_id].current_commit, FALSE, None))
    /\ UNCHANGED <<active_sessions, wf_head>>

\* Lines 388-392: pop on an empty stack returns the error, nothing else happens.
NoRevertPointsError(op, agent_id) ==
    /\ obs' = Result(op, agent_id, "NoRevertPoints", None, << >>)
    /\ UNCHANGED <<active_sessions, action_history, wf_head>>

\* revert_to_last_checkpoint, lines 381-408.
revert_to_last_checkpoint(agent_id) ==
    /\ Enter
    /\ UNCHANGED <<call, wf_commit_count, wf_point_count>>
    /\ LET op == "revert_to_last_checkpoint"
       IN IF ~HasSession(agent_id)
          THEN NoSessionError(op, agent_id, << >>) /\ UNCHANGED wf_head
          ELSE LET session == active_sessions[agent_id]
               IN IF session.revert_stack = << >>
                  THEN NoRevertPointsError(op, agent_id)
                  ELSE \E wf_ok \in BOOLEAN :
                     LET revert_point == PopPoint(session.revert_stack)
                         popped == [session EXCEPT !.revert_stack = PopRest(@)]
                         made == << WfCall("revert_to_point", Some(revert_point)) >>
                     IN IF ~wf_ok
                        THEN /\ active_sessions' =
                                    [active_sessions EXCEPT ![agent_id] = popped]
                             /\ obs' = Result(op, agent_id, "BackendError", None, made)
                             /\ UNCHANGED <<action_history, wf_head>>
                        ELSE /\ wf_head' = revert_to_point(revert_point)
                             /\ active_sessions' =
                                    [active_sessions EXCEPT ![agent_id] =
                                        [popped EXCEPT !.current_commit =
                                            Some(revert_point.commit_hash)]]
                             /\ action_history' =
                                    Append(action_history,
                                           CompletedAction(agent_id, "RevertToPoint",
                                                           session.current_commit, TRUE,
                                                           Some(revert_point.commit_hash)))
                             /\ obs' = Result(op, agent_id, "Ok", Some(revert_point), made)

\* Faulty variant: only the gate's record is pushed when the gate reports failure.
GateFailedOnlyGate(agent_id, commit_before, hash) ==
    << CompletedAction(agent_id, "CiCdValidation", commit_before, FALSE, Some(hash)) >>

\* Lines 448-457: the two records pushed when the CI gate reports failure,
\* the gate's first.
GateFailedActions(agent_id, commit_before, hash) ==
    << CompletedAction(agent_id, "CiCdValidation", commit_before, FALSE, Some(hash)),
       CompletedAction(agent_id, "QualityValidation", commit_before, FALSE, Some(hash)) >>

\* Lines 463-466: the two records pushed when the CI gate passes.
GatePassedActions(agent_id, commit_before, hash) ==
    << CompletedAction(agent_id, "CiCdValidation", commit_before, TRUE, Some(hash)),
       CompletedAction(agent_id, "QualityValidation", commit_before, TRUE, Some(hash)) >>

\* What the CI gate can answer: Err, Ok(false), Ok(true).
GateAnswers == {"error", "fail", "pass"}

ValidateFailures == {"none", "update_thread_colors", "create_commit_node"}

\* validate_and_commit, lines 430-469.
validate_and_commit(agent_id, fail, ci) ==
    /\ Enter
    /\ UNCHANGED <<call, wf_point_count>>
    /\ LET op == "validate_and_commit"
           c1 == << WfCall("update_thread_colors", None) >>
           c2 == Append(c1, WfCall("create_commit_node", None))
           hash == create_commit_node
           c3 == Append(c2, WfCall("validate_ci_cd", Some(hash)))
       IN IF ~HasSession(agent_id)
          THEN /\ fail = "none" /\ ci = "pass"
               /\ NoSessionError(op, agent_id, << >>)
               /\ UNCHANGED <<wf_head, wf_commit_count>>
          ELSE LET session == active_sessions[agent_id]
               IN IF fail # "none"
                  THEN /\ ci = "pass"
                       /\ obs' = Result(op, agent_id, "BackendError", None,
                                        IF fail = "update_thread_colors" THEN c1 ELSE c2)
                       /\ UNCHANGED <<active_sessions, action_history, wf_head,
                                      wf_commit_count>>
                  ELSE /\ wf_head' = hash
                       /\ wf_commit_count' = wf_commit_count + 1
                       /\ IF ci = "error"
                          THEN /\ obs' = Result(op, agent_id, "BackendError", None, c3)
                               /\ UNCHANGED <<active_sessions, action_history>>
                          ELSE IF ci = "fail"
                          THEN /\ action_history' =
                                      action_history \o
                                      GateFailedActions(agent_id, session.current_commit, hash)
                               /\ obs' = Result(op, agent_id, "CiFailed", Some(hash), c3)
                               /\ UNCHANGED active_sessions
                          ELSE /\ active_sessions' =
                                      [active_sessions EXCEPT ![agent_id].current_commit =
                                                                Some(hash)]
                               /\ action_history' =
                                      action_history \o
                                      GatePassedActions(agent_id, session.current_commit, hash)
                               /\ obs' = Result(op, agent_id, "Ok", Some(hash), c3)

\* get_convergence_status, lines 471-485.
get_convergence_status(agent_id, wf_ok, convergence) ==
    /\ Enter
    /\ UNCHANGED call
    /\ WfUnchanged
    /\ LET op == "get_convergence_status"
           made == << WfCall("analyze_convergence", None) >>
       IN IF ~HasSession(agent_id)
          THEN /\ wf_ok /\ convergence = CHOOSE m \in Metrics : TRUE
               /\ NoSessionError(op, agent_id, << >>)
          ELSE IF ~wf_ok
          THEN /\ convergence = CHOOSE m \in Metrics : TRUE
               /\ obs' = Result(op, agent_id, "BackendError", None, made)
               /\ UNCHANGED <<active_sessions, action_history>>
          ELSE /\ active_sessions' =
                      [active_sessions EXCEPT ![agent_id].convergence_history =
                                                Append(@, convergence)]
               /\ action_history' =
                      Append(action_history,
                             CompletedAction(agent_id, "ConvergenceCheck",
                                             active_sessions[agent_id].current_commit,
                                             TRUE, None))
               /\ obs' = Result(op, agent_id, "Ok", Some(convergence), made)

\* suggest_next_action, lines 490-510: the advice for a session.
Suggestion(session) ==
    LET history == session.convergence_history
        latest_convergence == history[Len(history)]
    IN IF history = << >> THEN "CONTINUE"
       ELSE IF latest_convergence.is_converged THEN "CONVERGED"
       ELSE IF latest_convergence.test_pass_rate < 50 THEN "REVERT"
       ELSE IF session.spiral_attempts > session.max_spiral_attempts \div 2
       THEN "CHECKPOINT"
       ELSE "CONTINUE"

\* Faulty variant: the advice is given after a fresh analysis, which is
\* recorded in the session.
suggest_next_action_analysing(agent_id) ==
    /\ Enter
    /\ UNCHANGED <<call, action_history>>
    /\ WfUnchanged
    /\ LET op == "suggest_next_action"
       IN IF ~HasSession(agent_id)
          THEN /\ obs' = Result(op, agent_id, "NoSession", None, << >>)
               /\ UNCHANGED active_sessions
          ELSE \E convergence \in Metrics :
                 LET analysed == [active_sessions[agent_id] EXCEPT
                                     !.convergence_history = Append(@, convergence)]
                 IN /\ active_sessions' = [active_sessions EXCEPT ![agent_id] = analysed]
                    /\ obs' = Result(op, agent_id, "Ok", Some(Suggestion(analysed)),
                                     << WfCall("analyze_convergence", None) >>)

\* suggest_next_action, lines 487-511.
suggest_next_action(agent_id) ==
    /\ Enter
    /\ UNCHANGED <<call, active_sessions, action_history>>
    /\ WfUnchanged
    /\ LET op == "suggest_next_action"
       IN IF ~HasSession(agent_id)
          THEN obs' = Result(op, agent_id, "NoSession", None, << >>)
          ELSE obs' = Result(op, agent_id, "Ok",
                             Some(Suggestion(active_sessions[agent_id])), << >>)

\* Lines 583-589: the snapshot reported when the session has no history.
EmptyConvergence == [test_pass_rate |-> 0, is_converged |-> FALSE]

\* Faulty variant: the records of every agent are counted.
StatisticsOfAll(agent_id) ==
    LET session == active_sessions[agent_id]
        total_actions == Len(action_history)
        successful_actions == Len(SelectSeq(action_history, LAMBDA a : a.success))
        history == session.convergence_history
    IN [agent_id |-> agent_id,
        total_actions |-> total_actions,
        success_rate |-> IF total_actions > 0
                         THEN (successful_actions * 100) \div total_actions
                         ELSE 0,
        spiral_attempts |-> session.spiral_attempts,
        convergence_state |-> IF history = << >> THEN EmptyConvergence
                              ELSE history[Len(history)],
        revert_points_used |-> Len(session.revert_stack)]

\* get_agent_statistics, lines 564-598: the AgentStatistics of an agent.
\* success_rate is in hundredths, rounded down.
Statistics(agent_id) ==
    LET session == active_sessions[agent_id]
        agent_actions == SelectSeq(action_history, LAMBDA a : a.agent_id = agent_id)
        total_actions == Len(agent_actions)
        successful_actions == Len(SelectSeq(agent_actions, LAMBDA a : a.success))
        history == session.convergence_history
    IN [agent_id |-> agent_id,
        total_actions |-> total_actions,
        success_rate |-> IF total_actions > 0
                         THEN (successful_actions * 100) \div total_actions
                         ELSE 0,
        spiral_attempts |-> session.spiral_attempts,
        convergence_state |-> IF history = << >> THEN EmptyConvergence
                              ELSE history[Len(history)],
        revert_points_used |-> Len(session.revert_stack)]

\* get_agent_statistics, lines 563-599.
get_agent_statistics(agent_id) ==
    /\ Enter
    /\ UNCHANGED <<call, active_sessions, action_history>>
    /\ WfUnchanged
    /\ LET op == "get_agent_statistics"
       IN IF ~HasSession(agent_id)
          THEN obs' = Result(op, agent_id, "NoSession", None, << >>)
          ELSE obs' = Result(op, agent_id, "Ok", Some(Statistics(agent_id)), << >>)

\* AgentWorkflowController::new, lines 179-185, over a backend whose HEAD is commit 0.
CtlInit ==
    /\ active_sessions = << >>
    /\ action_history = << >>
    /\ wf_head = 0
    /\ wf_commit_count = 0
    /\ wf_point_count = 0
    /\ call = Idle
    /\ obs = Result("new", "", "Ok", None, << >>)

CtlNext ==
    \/ \E a \in Agents : start_agent_session(a)
    \/ \E a \in Agents, n \in Overrides : set_max_spiral_attempts(a, n)
    \/ \E a \in Agents, t \in Targets : execute_infinite_monkey_workflow(a, t)
    \/ \E f \in IterationFailures, m \in Metrics : monkey_iteration(f, m)
    \/ \E a \in Agents : create_spiral_checkpoint(a)
    \/ \E a \in Agents : revert_to_last_checkpoint(a)
    \/ \E a \in Agents, f \in ValidateFailures, ci \in GateAnswers :
           validate_and_commit(a, f, ci)
    \/ \E a \in Agents, ok \in BOOLEAN, m \in Metrics :
           get_convergence_status(a, ok, m)
    \/ \E a \in Agents : suggest_next_action(a)
    \/ \E a \in Agents : get_agent_statistics(a)

\* The checkpoint operations, with validate_and_commit to move HEAD between them.
StackNext ==
    \/ \E a \in Agents : start_agent_session(a)
    \/ \E a \in Agents : create_spiral_checkpoint(a)
    \/ \E a \in Agents : revert_to_last_checkpoint(a)
    \/ \E a \in Agents, f \in ValidateFailures, ci \in GateAnswers :
           validate_and_commit(a, f, ci)

\* The operations that write what get_agent_statistics reads, and the reader.
StatsNext ==
    \/ \E a \in Agents : start_agent_session(a)
    \/ \E a \in Agents : create_spiral_checkpoint(a)
    \/ \E a \in Agents, f \in ValidateFailures, ci \in GateAnswers :
           validate_and_commit(a, f, ci)
    \/ \E a \in Agents, ok \in BOOLEAN, m \in Metrics :
           get_convergence_status(a, ok, m)
    \/ \E a \in Agents : get_agent_statistics(a)

\* ------------------------------------------------- concurrent quality store
\* Faulty variant: the color is taken from the lint score alone.
from_scores_lint_only(lint, type_check, test_coverage, functionality) ==
    IF lint >= 90 THEN "Green"
    ELSE IF lint >= 70 THEN "LightGreen"
    ELSE IF lint >= 50 THEN "Yellow"
    ELSE IF lint >= 30 THEN "Orange"
    ELSE "Red"

\* Faulty variant: each breakpoint belongs to the worse color.
from_scores_strict(lint, type_check, test_coverage, functionality) ==
    LET sum == lint + type_check + test_coverage + functionality
    IN IF sum > 360 THEN "Green"
       ELSE IF sum > 280 THEN "LightGreen"
       ELSE IF sum > 200 THEN "Yellow"
       ELSE IF sum > 120 THEN "Orange"
       ELSE "Red"

\* ThreadColor::from_scores, lib.rs lines 186-195; scores in hundredths, so the
\* mean is compared through the sum.
from_scores(lint, type_check, test_coverage, functionality) ==
    LET sum == lint + type_check + test_coverage + functionality
    IN IF sum >= 360 THEN "Green"
       ELSE IF sum >= 280 THEN "LightGreen"
       ELSE IF sum >= 200 THEN "Yellow"
       ELSE IF sum >= 120 THEN "Orange"
       ELSE "Red"

\* ThreadUpdate
ThreadUpdate(file_path, scores) ==
    [file_path |-> file_path,
     lint_score |-> scores[1],
     type_check_score |-> scores[2],
     test_coverage |-> scores[3],
     functionality_score |-> scores[4]]

Updates == {ThreadUpdate(p, v) : p \in Paths, v \in ScoreValues}

\* The slices update_threads_batch is called with: none, one update, or two
\* different updates of one file. Longer batches build up over several calls.
UpdateSlices ==
    {<< >>} \cup {<<u>> : u \in Updates}
            \cup {<<pair[1], pair[2]>> :
                      pair \in {q \in Updates \X Updates :
                                  q[1].file_path = q[2].file_path /\ q[1] # q[2]}}

\* Lines 324-330: the updates of one file, in submission order.
Group(updates, file_path) == SelectSeq(updates, LAMBDA u : u.file_path = file_path)

\* Faulty variant: the first update of a file wins.
FirstUpdate(file_updates) == file_updates[1]

\* Line 355: file_updates.last()
LatestUpdate(file_updates) == file_updates[Len(file_updates)]

\* Lines 342-351: the record a first write creates.
NewThread ==
    [color_status |-> "Red",
     lint_score |-> 0,
     type_check_score |-> 0,
     test_coverage |-> 0,
     functionality_score |-> 0]

\* Faulty variant: the scores are written and the color is left as it was.
ApplyUpdateScoresOnly(thread, latest_update) ==
    [thread EXCEPT
        !.lint_score = latest_update.lint_score,
        !.type_check_score = latest_update.type_check_score,
        !.test_coverage = latest_update.test_coverage,
        !.functionality_score = latest_update.functionality_score]

\* Lines 356-368: the record after one update is applied to it.
ApplyUpdate(thread, latest_update) ==
    [thread EXCEPT
        !.lint_score = latest_update.lint_score,
        !.type_check_score = latest_update.type_check_score,
        !.test_coverage = latest_update.test_coverage,
        !.functionality_score = latest_update.functionality_score,
        !.color_status = from_scores(latest_update.lint_score,
                                     latest_update.type_check_score,
                                     latest_update.test_coverage,
                                     latest_update.functionality_score)]

\* DashMap::remove
Remove(map, key) == [k \in DOMAIN map \ {key} |-> map[k]]

\* Faulty variant: accepting a write leaves the cache as it is.
InvalidateNothing(cache, file_path) == cache

\* Line 299: the cache after the write to file_path is accepted.
Invalidate(cache, file_path) == Remove(cache, file_path)

\* Faulty variant: the buffer is flushed once it is over the batch size.
FlushDueAboveSize(pending, elapsed) ==
    Len(pending) > BatchSize \/ elapsed > FlushIntervalMs

\* Lines 303-304: the flush condition.
FlushDue(pending, elapsed) == Len(pending) >= BatchSize \/ elapsed > FlushIntervalMs

\* Faulty variant: an entry exactly as old as the TTL is still served.
FreshAtTtl(cached) == now - cached.timestamp <= CacheTtlMs

\* Line 386: a cached snapshot is served while younger than the TTL.
Fresh(cached) == now - cached.timestamp < CacheTtlMs

WriterIdle == [pc |-> "idle", call |-> 0, flushed |-> << >>]

ReaderIdle == [pc |-> "idle"]

CtlIdle == UNCHANGED <<ctl_vars, lib_vars>>

\* One step that enters a store operation or moves the clock.
StoreEnter ==
    /\ calls < budget
    /\ calls' = calls + 1
    /\ UNCHANGED budget
    /\ CtlIdle

\* Lines 295-300: every update of the slice is pushed and its file's cache
\* entry removed. Removing an entry twice is removing it once, so the
\* removals are made once per file the slice names.
RECURSIVE InvalidateFiles(_, _)
InvalidateFiles(cache, files) ==
    IF files = {} THEN cache
    ELSE LET file_path == CHOOSE f \in files : TRUE
         IN InvalidateFiles(Invalidate(cache, file_path), files \ {file_path})

InvalidateAll(cache, updates) ==
    InvalidateFiles(cache, {updates[i].file_path : i \in 1..Len(updates)})

\* update_threads_batch, lines 288-309, up to the tasks of the flush. The
\* pending buffer is seen by the lock holder alone and the removals of cache
\* entries commute with what readers do, so the pushes, the removals and the
\* flush decision are one step. A flush takes the pending updates (line 321)
\* and returns at once when there are none (lines 316-318).
update_threads_batch(updates) ==
    /\ StoreEnter
    /\ writer.pc = "idle"
    /\ quality_cache' = InvalidateAll(quality_cache, updates)
    /\ LET pending == pending_updates \o updates
       IN IF FlushDue(pending, now - last_flush) /\ pending # << >>
          THEN /\ writer' = [pc |-> "flush",
                             call |-> calls',
                             updates |-> updates,
                             flushed |-> pending,
                             before |-> threads,
                             todo |-> {pending[i].file_path : i \in 1..Len(pending)}]
               /\ pending_updates' = << >>
          ELSE /\ writer' = [pc |-> "idle", call |-> calls', updates |-> updates,
                             flushed |-> << >>]
               /\ pending_updates' = pending
    /\ UNCHANGED <<threads, last_flush, now, reader>>

\* Lines 337-370: the task of one file, run under the file's write lock.
flush_apply(file_path) ==
    /\ writer.pc = "flush"
    /\ file_path \in writer.todo
    /\ LET file_updates == Group(writer.flushed, file_path)
           thread == IF file_path \in DOMAIN threads THEN threads[file_path]
                     ELSE NewThread
       IN threads' = Insert(threads, file_path,
                            ApplyUpdate(thread, LatestUpdate(file_updates)))
    /\ writer' = [writer EXCEPT !.todo = @ \ {file_path}]
    /\ UNCHANGED <<quality_cache, pending_updates, last_flush, now, reader, calls, budget>>
    /\ CtlIdle

\* Lines 375-378: all tasks joined, the flush time is taken, the call returns.
flush_done ==
    /\ writer.pc = "flush"
    /\ writer.todo = {}
    /\ last_flush' = now
    /\ writer' = [pc |-> "idle", call |-> writer.call, updates |-> writer.updates,
                  flushed |-> writer.flushed, before |-> writer.before]
    /\ UNCHANGED <<threads, quality_cache, pending_updates, now, reader, calls, budget>>
    /\ CtlIdle

\* get_thread_cached, lines 384-389: the cache is consulted first.
get_thread_cached(r, file_path) ==
    /\ StoreEnter
    /\ reader[r].pc = "idle"
    /\ IF file_path \in DOMAIN quality_cache /\ Fresh(quality_cache[file_path])
       THEN reader' = [reader EXCEPT ![r] =
                          [pc |-> "idle", file_path |-> file_path,
                           result |-> Some(quality_cache[file_path].color),
                           from_cache |-> TRUE]]
       ELSE reader' = [reader EXCEPT ![r] = [pc |-> "miss", file_path |-> file_path]]
    /\ UNCHANGED <<threads, quality_cache, pending_updates, last_flush, now, writer>>

\* Lines 397-406: the snapshot cached for a record. written is the number of
\* calls begun when the entry is written.
QualitySnapshot(thread) ==
    [color |-> thread.color_status,
     score |-> (thread.lint_score + thread.type_check_score
                + thread.test_coverage + thread.functionality_score) \div 4,
     timestamp |-> now,
     written |-> calls]

\* Lines 392-411: on a miss the canonical record is read and cached while the
\* reader holds the record's entry and read lock, so this is one step.
read_thread(r) ==
    /\ reader[r].pc = "miss"
    /\ LET file_path == reader[r].file_path
       IN IF file_path \in DOMAIN threads
          THEN /\ quality_cache' =
                      Insert(quality_cache, file_path, QualitySnapshot(threads[file_path]))
               /\ reader' = [reader EXCEPT ![r] =
                                [pc |-> "idle", file_path |-> file_path,
                                 result |-> Some(threads[file_path].color_status),
                                 from_cache |-> FALSE]]
          ELSE /\ reader' = [reader EXCEPT ![r] =
                                [pc |-> "idle", file_path |-> file_path,
                                 result |-> None, from_cache |-> FALSE]]
               /\ UNCHANGED quality_cache
    /\ UNCHANGED <<threads, pending_updates, last_flush, now, writer, calls, budget>>
    /\ CtlIdle

\* Time passes.
Tick(ms) ==
    /\ StoreEnter
    /\ now' = now + ms
    /\ UNCHANGED <<threads, quality_cache, pending_updates, last_flush, writer, reader>>

\* ConcurrentThreadManager::new, lines 273-279, and BatchProcessor::new, 452-458.
StoreInit ==
    /\ threads = << >>
    /\ quality_cache = << >>
    /\ pending_updates = << >>
    /\ last_flush = 0
    /\ now = 0
    /\ writer = WriterIdle
    /\ reader = [r \in Readers |-> ReaderIdle]

StoreNext ==
    \/ \E updates \in UpdateSlices : update_threads_batch(updates)
    \/ \E p \in Paths : flush_apply(p)
    \/ flush_done
    \/ \E r \in Readers, p \in Paths : get_thread_cached(r, p)
    \/ \E r \in Readers : read_thread(r)
    \/ \E ms \in TickSteps : Tick(ms)

\* ------------------------------------------------ parallel commit processor
\* Lines 28-34: the global rayon pool has num_cpus::get().max(4) threads.
Max(a, b) == IF a >= b THEN a ELSE b
Min(a, b) == IF a <= b THEN a ELSE b
PoolThreads(cpus) == Max(cpus, 4)

\* Line 141: (cpu_count * 2).max(4).min(32)
ConcurrencyLimit(cpus) == Min(Max(cpus * 2, 4), 32)

\* ParallelCommitProcessor::new, lines 139-148, on a host with one of the
\* given numbers of logical CPUs.
ProcInit(cpus) ==
    /\ cpu_count \in cpus
    /\ concurrency_limit = ConcurrencyLimit(cpu_count)
    /\ pool_queued = 0
    /\ pool_running = 0
    /\ par = [pc |-> "idle"]

\* ------------------------------------------------------ convergence analyzer
\* Factors, ratios, scores and thresholds are f64 in [0,1], written in
\* hundredths; products of two of them are in ten-thousandths. The rounding
\* of f64 arithmetic is not modelled.

\* ConvergenceAnalyzer::default, convergence.rs lines 68-78.
DefaultAnalyzer == [convergence_threshold |-> 80, min_green_threads_ratio |-> 70]

\* ConvergenceAnalyzer::new or with_config, lines 128-168, with one of the
\* given configurations. The windows and the variance threshold are not used
\* by the functions modelled.
ConvInit(configs) ==
    /\ analyzer \in configs
    /\ conv = [op |-> "new"]

\* calculate_thread_health_ratio, lines 278-310, for the colors of the latest
\* commit's threads.
Healthy(colors) == {i \in DOMAIN colors : colors[i] \in {"Green", "LightGreen"}}
calculate_thread_health_ratio(colors) ==
    LET total_threads == Len(colors)
        healthy_threads == Cardinality(Healthy(colors))
    IN IF total_threads = 0 THEN 0
       ELSE IF healthy_threads * 100 >= analyzer.min_green_threads_ratio * total_threads
       THEN (healthy_threads * 100) \div total_threads
       ELSE 0

\* Lines 403-416: the weighted sum, in ten-thousandths.
ConfidenceScore(factors) ==
    factors.quality_stability * 30
    + factors.thread_health_ratio * 25
    + factors.test_pass_consistency * 20
    + factors.build_success_rate * 15
    + factors.trend_improvement * 10

\* Faulty variant: thread health is left out of the decision.
determine_convergence_ungated(factors) ==
    [is_converged |-> /\ ConfidenceScore(factors) >= analyzer.convergence_threshold * 100
                      /\ factors.quality_stability > 80,
     confidence_score |-> ConfidenceScore(factors)]

\* determine_convergence, lines 402-423.
determine_convergence(factors) ==
    [is_converged |-> /\ ConfidenceScore(factors) >= analyzer.convergence_threshold * 100
                      /\ factors.quality_stability > 80
                      /\ factors.thread_health_ratio >= analyzer.min_green_threads_ratio,
     confidence_score |-> ConfidenceScore(factors)]

\* Lines 496-501: health scores of the last up to 10 commits, newest first.
RecentScores(commit_history) ==
    LET n == Min(Len(commit_history), 10)
    IN [i \in 1..n |-> commit_history[Len(commit_history) + 1 - i]]

\* f64::ceil of a / b for a >= 0 and b > 0.
CeilDiv(a, b) == (a + b - 1) \div b

\* Faulty variant: a history at or past the threshold is reported as
\* converged before its trend is looked at.
predict_threshold_first(commit_history) ==
    IF Len(commit_history) < 3 THEN None
    ELSE LET recent_scores == RecentScores(commit_history)
             current_score == recent_scores[1]
             oldest_score == recent_scores[Len(recent_scores)]
             gain == current_score - oldest_score
             remaining_improvement == analyzer.convergence_threshold - current_score
         IN IF remaining_improvement <= 0 THEN Some(0)
            ELSE IF gain <= 0 THEN None
            ELSE LET predicted_iterations ==
                         CeilDiv(remaining_improvement * Len(recent_scores), gain)
                 IN IF predicted_iterations > 100 THEN None
                    ELSE Some(predicted_iterations)

\* predict_convergence_time, lines 490-528, for the health scores of the
\* commits, oldest first. improvement_rate is gain / recent_scores.len(), so
\* remaining_improvement / improvement_rate is remaining * len / gain.
predict_convergence_time(commit_history) ==
    IF Len(commit_history) < 3 THEN None
    ELSE LET recent_scores == RecentScores(commit_history)
             current_score == recent_scores[1]
             oldest_score == recent_scores[Len(recent_scores)]
             gain == current_score - oldest_score
             remaining_improvement == analyzer.convergence_threshold - current_score
         IN IF Len(recent_scores) < 3 THEN None
            ELSE IF gain <= 0 THEN None
            ELSE IF remaining_improvement <= 0 THEN Some(0)
            ELSE LET predicted_iterations ==
                         CeilDiv(remaining_improvement * Len(recent_scores), gain)
                 IN IF predicted_iterations > 100 THEN None
                    ELSE Some(predicted_iterations)

\* The functions take &self and their results depend on nothing but the
\* configuration and the input, so one application per run shows them all.
ConvEnter == conv.op = "new"
ConvIdle == UNCHANGED <<analyzer, ctl_vars, store_vars, proc_vars, unit_vars, calls, budget>>

\* determine_convergence applied to five given factors.
call_determine_convergence(factors) ==
    /\ ConvEnter
    /\ conv' = [op |-> "determine_convergence",
                factors |-> factors,
                result |-> determine_convergence(factors)]
    /\ ConvIdle

\* analyze_convergence, lines 195-219, on a non-empty history: the thread
\* health factor comes from the colors of the latest commit's threads, the
\* other four factors from the history, and the decision from all five.
call_analyze_convergence(colors, others) ==
    /\ ConvEnter
    /\ LET factors == [quality_stability |-> others[1],
                       thread_health_ratio |-> calculate_thread_health_ratio(colors),
                       test_pass_consistency |-> others[2],
                       build_success_rate |-> others[3],
                       trend_improvement |-> others[4]]
       IN conv' = [op |-> "analyze_convergence",
                   colors |-> colors,
                   factors |-> factors,
                   result |-> determine_convergence(factors)]
    /\ ConvIdle

\* predict_convergence_time applied to a history of health scores.
call_predict_convergence_time(commit_history) ==
    /\ ConvEnter
    /\ conv' = [op |-> "predict_convergence_time",
                commit_history |-> commit_history,
                result |-> predict_convergence_time(commit_history)]
    /\ ConvIdle

\* ------------------------------------------------------------ thread colors
\* ThreadColor::to_score, lib.rs lines 197-205, in hundredths.
to_score(color) ==
    CASE color = "Green" -> 100
      [] color = "LightGreen" -> 80
      [] color = "Yellow" -> 60
      [] color = "Orange" -> 40
      [] color = "Red" -> 20

ColorInit == classified = [op |-> "new"]

\* from_scores applied to four scores and to_score to its color; the
\* functions depend on nothing but their arguments, so one application per
\* run shows them all.
call_from_scores(scores) ==
    /\ classified.op = "new"
    /\ LET color == from_scores(scores[1], scores[2], scores[3], scores[4])
       IN classified' = [op |-> "from_scores", scores |-> scores,
                         color |-> color, score |-> to_score(color)]
    /\ UNCHANGED <<ctl_vars, store_vars, proc_vars, conv_vars, calls, budget, stream,
                   thread_manager, git_workflow>>

\* ---------------------------------------------------------- StreamingAnalyzer
\* Sum of a sequence of scores.
RECURSIVE SumSeq(_)
SumSeq(samples) ==
    IF samples = << >> THEN 0 ELSE samples[1] + SumSeq(Tail(samples))

\* calculate_trend, performance.rs lines 546-566. The averages of the halves
\* are compared through their sums: second/n2 - first/n1 > 0.05 is
\* second*n1 - first*n2 > 5*n1*n2 in hundredths.
calculate_trend(recent_samples, sample_count) ==
    LET len == Len(recent_samples)
        mid_point == len \div 2
        first_sum == SumSeq(SubSeq(recent_samples, 1, mid_point))
        second_sum == SumSeq(SubSeq(recent_samples, mid_point + 1, len))
        first_n == mid_point
        second_n == len - mid_point
        scaled_diff == second_sum * first_n - first_sum * second_n
    IN IF len < 3 THEN "Insufficient"
       ELSE IF scaled_diff > 5 * first_n * second_n THEN "Improving"
       ELSE IF scaled_diff < -5 * first_n * second_n THEN "Degrading"
       ELSE "Stable"

\* Faulty variant: a full window refuses the new sample.
SlideKeepOldest(pushed, window_size) ==
    IF Len(pushed) > window_size THEN SubSeq(pushed, 1, Len(pushed) - 1) ELSE pushed

\* Lines 526-528: the oldest sample is removed when the window is over its size.
Slide(pushed, window_size) ==
    IF Len(pushed) > window_size THEN Tail(pushed) ELSE pushed

\* StreamingAnalyzer::new, lines 502-507. Welford's running mean and sum of
\* squared deviations are kept as the sum and the sum of squares of the
\* samples, which determine them: quality_avg = sum / n and
\* quality_variance = sum_sq - sum^2 / n.
StreamInit(window_sizes) ==
    \E window_size \in window_sizes :
        stream = [window_size |-> window_size,
                  sample_count |-> 0,
                  quality_sum |-> 0,
                  quality_sum_sq |-> 0,
                  recent_samples |-> << >>,
                  result |-> None]

\* process_commit_streaming, lines 513-543, for a commit of the given
\* health_score. is_stable is current_variance < 0.02, that is
\* (sum_sq - sum^2/n) / (n - 1) < 200 ten-thousandths.
process_commit_streaming(health_score) ==
    /\ calls < budget
    /\ calls' = calls + 1
    /\ LET sample_count == stream.sample_count + 1
           quality_sum == stream.quality_sum + health_score
           quality_sum_sq == stream.quality_sum_sq + health_score * health_score
           pushed == Append(stream.recent_samples, health_score)
           recent_samples == Slide(pushed, stream.window_size)
           is_stable == IF sample_count > 1
                        THEN sample_count * quality_sum_sq - quality_sum * quality_sum
                                 < 200 * sample_count * (sample_count - 1)
                        ELSE TRUE
       IN stream' = [stream EXCEPT
                       !.sample_count = sample_count,
                       !.quality_sum = quality_sum,
                       !.quality_sum_sq = quality_sum_sq,
                       !.recent_samples = recent_samples,
                       !.result = Some([current_avg |-> quality_sum \div sample_count,
                                        sample_count |-> sample_count,
                                        is_stable |-> is_stable,
                                        trend_direction |->
                                            calculate_trend(recent_samples, sample_count)])]
    /\ UNCHANGED <<ctl_vars, store_vars, proc_vars, conv_vars, budget, classified,
                   thread_manager, git_workflow>>

\* -------------------------------------------------------------- ThreadManager
\* ThreadManager::new, threads.rs lines 52-58. given is not a field: it
\* records, per thread, every state the thread's history was given since
\* create_thread built it.
ThreadManagerInit ==
    thread_manager = [active_threads |-> << >>, given |-> << >>, status |-> "Ok"]

\* ThreadState: the commit it was recorded at. The states of one run differ
\* by their commit.
ThreadState(commit_hash) == [commit_hash |-> commit_hash, diff_content |-> ""]

\* create_thread, lines 60-84: a Red thread whose history is one state.
create_thread(file_path, commit_hash) ==
    /\ calls < budget
    /\ calls' = calls + 1
    /\ LET thread == [file_path |-> file_path,
                      color_status |-> "Red",
                      history |-> << ThreadState(commit_hash) >>]
       IN thread_manager' =
              [active_threads |-> Insert(thread_manager.active_threads, file_path, thread),
               given |-> Insert(thread_manager.given, file_path, thread.history),
               status |-> "Ok"]
    /\ UNCHANGED <<ctl_vars, store_vars, proc_vars, conv_vars, budget, classified, stream,
                   git_workflow>>

\* Faulty variant: the push is refused once the history is full.
CappedKeepOldest(history) ==
    IF Len(history) > HistoryCap THEN SubSeq(history, 1, HistoryCap) ELSE history

\* Lines 133-135: drain(0..len - 50) when the history is longer than 50.
Capped(history) ==
    IF Len(history) > HistoryCap
    THEN SubSeq(history, Len(history) - HistoryCap + 1, Len(history))
    ELSE history

\* add_thread_state, lines 111-138.
add_thread_state(file_path, commit_hash) ==
    /\ calls < budget
    /\ calls' = calls + 1
    /\ IF file_path \notin DOMAIN thread_manager.active_threads
       THEN thread_manager' = [thread_manager EXCEPT !.status = "ThreadNotFound"]
       ELSE LET state == ThreadState(commit_hash)
            IN thread_manager' =
                   [thread_manager EXCEPT
                      !.active_threads[file_path].history = Capped(Append(@, state)),
                      !.given[file_path] = Append(@, state),
                      !.status = "Ok"]
    /\ UNCHANGED <<ctl_vars, store_vars, proc_vars, conv_vars, budget, classified, stream,
                   git_workflow>>

\* --------------------------------------------------------- GitWorkflowManager
\* The first n elements of a sequence, all of it when it is shorter.
Take(seq, n) == IF Len(seq) > n THEN SubSeq(seq, 1, n) ELSE seq

\* iter().rev()
Reversed(seq) == [i \in 1..Len(seq) |-> seq[Len(seq) + 1 - i]]

\* core.rs lines 406-408: the health scores of the last 10 commits, newest first.
QualityTrend(commit_history) ==
    Take(Reversed([i \in 1..Len(commit_history) |-> commit_history[i].health_score]), 10)

\* windows(2).all(|w| w[0] <= w[1])
NonDecreasing(trend) == \A i \in 1..(Len(trend) - 1) : trend[i] <= trend[i + 1]

\* GitWorkflowManager::analyze_convergence, core.rs lines 405-424. The mean of
\* the three newest scores is compared through their sum; test_pass_rate is
\* rounded down to hundredths.
analyze_convergence(commit_history) ==
    LET quality_trend == QualityTrend(commit_history)
        is_converged == IF Len(quality_trend) >= 3
                        THEN /\ SumSeq(Take(quality_trend, 3)) > 3 * 80
                             /\ NonDecreasing(quality_trend)
                        ELSE FALSE
    IN [attempts |-> Len(commit_history),
        successful_builds |-> Len(SelectSeq(quality_trend, LAMBDA q : q > 70)),
        test_pass_rate |-> SumSeq(quality_trend)
                               \div (IF Len(quality_trend) > 0 THEN Len(quality_trend) ELSE 1),
        quality_trend |-> quality_trend,
        is_converged |-> is_converged]

\* Lines 343-361: the CommitNode create_commit_node builds. Its
\* convergence_metrics are computed before it is pushed onto commit_history.
CommitNode(hash, health_score, commit_history) ==
    [hash |-> hash,
     health_score |-> health_score,
     convergence_metrics |-> analyze_convergence(commit_history)]

\* GitWorkflowManager::new, lines 72-102, on a repository whose HEAD is commit 0.
GitInit ==
    git_workflow = [commit_history |-> << >>,
                    head |-> 0,
                    commits |-> 0,
                    frame |-> Idle,
                    result |-> [status |-> "new"]]

GitIdle ==
    UNCHANGED <<ctl_vars, store_vars, proc_vars, conv_vars, budget, classified, stream,
                thread_manager>>

\* Lines 145-154: the error returned when the loop ends without convergence.
MaxIterationsError(max_attempts, commit_history) ==
    [status |-> "ConvergenceError",
     iterations |-> max_attempts,
     last_score |-> IF commit_history = << >> THEN 0
                    ELSE commit_history[Len(commit_history)].health_score,
     threshold |-> 80]

\* infinite_monkey_iteration, lines 124-127: the anchor is taken at HEAD, and
\* the loop is entered unless max_attempts is 0. first records the number of
\* commits made before the call.
infinite_monkey_iteration(max_attempts, git_ok) ==
    /\ git_workflow.frame.pc = "idle"
    /\ calls < budget
    /\ calls' = calls + 1
    /\ LET entered == [pc |-> "loop",
                       max_attempts |-> max_attempts,
                       attempt |-> 1,
                       first |-> git_workflow.commits,
                       initial_revert_point |-> [commit_hash |-> git_workflow.head]]
       IN IF ~git_ok
          THEN git_workflow' =
                   [git_workflow EXCEPT
                      !.result = [status |-> "GitError", max_attempts |-> max_attempts,
                                  first |-> git_workflow.commits, attempts |-> 0]]
          ELSE IF max_attempts = 0
          THEN git_workflow' =
                   [git_workflow EXCEPT
                      !.result = MaxIterationsError(max_attempts,
                                                    git_workflow.commit_history)
                                 @@ [max_attempts |-> max_attempts,
                                     first |-> git_workflow.commits, attempts |-> 0]]
          ELSE git_workflow' =
                   [git_workflow EXCEPT
                      !.frame = entered,
                      !.result = [status |-> "Running", max_attempts |-> max_attempts,
                                  first |-> git_workflow.commits, attempts |-> 0]]
    /\ GitIdle

\* One pass through the loop body, lines 127-143, and the return that follows
\* the last pass, lines 145-154. health_score is the score of the commit the
\* pass creates; git_ok is false when create_commit_node fails.
git_attempt(health_score, git_ok) ==
    /\ git_workflow.frame.pc = "loop"
    /\ LET frame == git_workflow.frame
           hash == git_workflow.commits + 1
           commit_node == CommitNode(hash, health_score, git_workflow.commit_history)
           commit_history == Append(git_workflow.commit_history, commit_node)
           convergence == analyze_convergence(commit_history)
           seen == [max_attempts |-> frame.max_attempts, first |-> frame.first,
                    attempts |-> frame.attempt]
       IN IF ~git_ok
          THEN git_workflow' =
                   [git_workflow EXCEPT
                      !.frame = Idle,
                      !.result = [status |-> "GitError"] @@ seen]
          ELSE IF convergence.is_converged
          THEN git_workflow' =
                   [git_workflow EXCEPT
                      !.commit_history = commit_history,
                      !.commits = hash,
                      !.head = hash,
                      !.frame = Idle,
                      !.result = [status |-> "Ok", commit |-> commit_node] @@ seen]
          ELSE IF frame.attempt < frame.max_attempts
          THEN git_workflow' =
                   [git_workflow EXCEPT
                      !.commit_history = commit_history,
                      !.commits = hash,
                      !.head = frame.initial_revert_point.commit_hash,
                      !.frame.attempt = frame.attempt + 1,
                      !.result = [status |-> "Running"] @@ seen]
          ELSE git_workflow' =
                   [git_workflow EXCEPT
                      !.commit_history = commit_history,
                      !.commits = hash,
                      !.head = hash,
                      !.frame = Idle,
                      !.result = MaxIterationsError(frame.max_attempts, commit_history)
                                 @@ seen]
    /\ UNCHANGED calls
    /\ GitIdle

\* StreamingAnalyzer::new(50), the window size the crate's benchmark builds.
DefaultWindowSize == 50

\* The components exercised on their own, built and not called.
UnitInit == ColorInit /\ StreamInit({DefaultWindowSize}) /\ ThreadManagerInit /\ GitInit

\* The processor and the analyzer as the controller and the store see them:
\* built, not called.
LibInit == ProcInit({8}) /\ ConvInit({DefaultAnalyzer}) /\ UnitInit

\* process_commits_parallel, lines 176-181: the call takes its start time and
\* chunk size and hands its job to the pool with install(), where it waits
\* for a pool thread. The semaphore is not touched.
process_commits_parallel ==
    /\ calls < budget
    /\ calls' = calls + 1
    /\ pool_queued' = pool_queued + 1
    /\ UNCHANGED <<cpu_count, concurrency_limit, pool_running, par, budget, ctl_vars,
                   store_vars, conv_vars, unit_vars>>

\* A pool thread that runs no job takes a queued job: the call's scoring
\* work starts. A call whose job runs keeps at least one pool thread busy, so
\* the pool runs the jobs of at most PoolThreads calls at a time.
pool_start ==
    /\ pool_queued > 0
    /\ pool_running < PoolThreads(cpu_count)
    /\ pool_queued' = pool_queued - 1
    /\ pool_running' = pool_running + 1
    /\ UNCHANGED <<cpu_count, concurrency_limit, par, calls, budget, ctl_vars, store_vars,
                   conv_vars, unit_vars>>

\* Lines 198-211: the job is done, install() returns, the results are
\* flattened, the metrics updated and the call returns.
pool_finish ==
    /\ pool_running > 0
    /\ pool_running' = pool_running - 1
    /\ UNCHANGED <<cpu_count, concurrency_limit, pool_queued, par, calls, budget, ctl_vars,
                   store_vars, conv_vars, unit_vars>>

\* --- one call in detail
\* GdkResult<R>
Ok(value) == [ok |-> TRUE, value |-> value]
Err(error) == [ok |-> FALSE, error |-> error]

\* The processor functions callers pass: each commit is scored, yielding a
\* value of its own, or rejected with an error of its own.
ProcessorFns == [Commits -> {"score", "reject"}]
Apply(processor_fn, commit) ==
    IF processor_fn[commit] = "score" THEN Ok(<<"scored", commit>>)
    ELSE Err(<<"rejected", commit>>)

\* Lines 215-231: calculate_optimal_chunk_size returns a value in 1..1000
\* that depends on the host and the metrics; every size up to one more than
\* the longest input is offered.
ChunkSizes == 1..(MaxCommits + 1)

\* slice::par_chunks, line 183: consecutive slices of chunk_size items, the
\* last one shorter when the length is not a multiple.
ChunkCount(commits, chunk_size) == (Len(commits) + chunk_size - 1) \div chunk_size
Chunk(commits, chunk_size, chunk_idx) ==
    SubSeq(commits, (chunk_idx - 1) * chunk_size + 1,
           Min(chunk_idx * chunk_size, Len(commits)))

\* Lines 186-196: the items of a chunk, in order, through processor_fn.
ChunkResults(chunk, processor_fn) == [i \in 1..Len(chunk) |-> Apply(processor_fn, chunk[i])]

\* Faulty variant: the chunks are joined last to first.
RECURSIVE FlattenReversed(_)
FlattenReversed(results) ==
    IF results = << >> THEN << >>
    ELSE FlattenReversed(Tail(results)) \o Head(results)

\* Lines 202-204: into_iter().flatten() joins the chunks' results in the
\* order of the chunks.
RECURSIVE Flatten(_)
Flatten(results) ==
    IF results = << >> THEN << >>
    ELSE Head(results) \o Flatten(Tail(results))

\* Lines 202-205: collect() into GdkResult<Vec<R>> stops at the first Err.
RECURSIVE Collect(_)
Collect(items) ==
    IF items = << >> THEN Ok(<< >>)
    ELSE IF ~Head(items).ok THEN Head(items)
    ELSE LET rest == Collect(Tail(items))
         IN IF rest.ok THEN Ok(<<Head(items).value>> \o rest.value) ELSE rest

ProcIdle == UNCHANGED <<cpu_count, concurrency_limit, pool_queued, pool_running,
                        ctl_vars, store_vars, conv_vars, unit_vars, budget>>

\* Lines 176-184: the call splits its input into chunks for the pool.
par_begin(commits, processor_fn, chunk_size) ==
    /\ par.pc \in {"idle", "done"}
    /\ calls < budget
    /\ calls' = calls + 1
    /\ par' = [pc |-> "chunks",
               commits |-> commits,
               processor_fn |-> processor_fn,
               chunk_size |-> chunk_size,
               results |-> [i \in 1..ChunkCount(commits, chunk_size) |-> None],
               started |-> << >>]
    /\ ProcIdle

\* Lines 185-197: a pool thread takes any chunk not yet taken and maps it;
\* rayon's collect() puts the chunk's results at the chunk's index.
par_chunk(chunk_idx) ==
    /\ par.pc = "chunks"
    /\ chunk_idx \in DOMAIN par.results
    /\ par.results[chunk_idx] = None
    /\ par' = [par EXCEPT
                  !.results[chunk_idx] =
                      Some(ChunkResults(Chunk(par.commits, par.chunk_size, chunk_idx),
                                        par.processor_fn)),
                  !.started = Append(@, chunk_idx)]
    /\ UNCHANGED calls
    /\ ProcIdle

\* Lines 199-211: every chunk is done; flatten, collect, return.
par_end ==
    /\ par.pc = "chunks"
    /\ \A i \in DOMAIN par.results : par.results[i] # None
    /\ par' = [pc |-> "done",
               commits |-> par.commits,
               processor_fn |-> par.processor_fn,
               chunk_size |-> par.chunk_size,
               started |-> par.started,
               result |-> Collect(Flatten([i \in DOMAIN par.results |->
                                              par.results[i][1]]))]
    /\ UNCHANGED calls
    /\ ProcIdle

ParNext ==
    \/ \E n \in 0..MaxCommits, size \in ChunkSizes, f \in ProcessorFns :
           \E commits \in [1..n -> Commits] : par_begin(commits, f, size)
    \/ \E i \in 1..MaxCommits : par_chunk(i)
    \/ par_end

ProcNext ==
    \/ process_commits_parallel
    \/ pool_start
    \/ pool_finish

Init == CtlInit /\ StoreInit /\ LibInit /\ calls = 0 /\ budget = MaxCalls

StackInit == CtlInit /\ StoreInit /\ LibInit /\ calls = 0 /\ budget = MaxStackCalls

StoreSpecInit == CtlInit /\ StoreInit /\ LibInit /\ calls = 0 /\ budget = MaxStoreCalls

\* Every controller operation, any agent.
Spec == Init /\ [][CtlNext]_vars

StatsInit == CtlInit /\ StoreInit /\ LibInit /\ calls = 0 /\ budget = MaxStatsCalls

\* Statistics over the records and sessions of several agents.
SpecStats == StatsInit /\ [][StatsNext]_vars

\* The checkpoint stack, explored deeper.
SpecStack == StackInit /\ [][StackNext]_vars

\* The concurrent quality store: one writer at a time, readers beside it.
SpecStore == StoreSpecInit /\ [][StoreNext]_vars

\* Slices long enough to fill the buffer: one update repeated.
SliceLengths == {1, 24, 25, 50}
LongSlices == {[i \in 1..n |-> u] : n \in SliceLengths, u \in Updates}

\* Calls that follow each other within the flush interval, so that only the
\* size of the buffer can make a flush due.
BatchNext ==
    \/ \E updates \in LongSlices : update_threads_batch(updates)
    \/ \E p \in Paths : flush_apply(p)
    \/ flush_done

BatchSpecInit == CtlInit /\ StoreInit /\ LibInit /\ calls = 0 /\ budget = MaxBatchCalls

\* The buffer filled by long slices.
SpecBatch == BatchSpecInit /\ [][BatchNext]_vars

\* What goes on without a caller deciding to write: the tasks of a flush in
\* progress run to completion, reads are served, time passes.
StoreBackground ==
    \/ \E p \in Paths : flush_apply(p)
    \/ flush_done
    \/ \E r \in Readers, p \in Paths : get_thread_cached(r, p)
    \/ \E r \in Readers : read_thread(r)
    \/ \E ms \in TickSteps : Tick(ms)

\* The store when nothing that can run is held back; whether and when
\* update_threads_batch is called is the callers' choice.
SpecStoreFair == StoreSpecInit /\ [][StoreNext]_vars /\ WF_vars(StoreBackground)

\* The cache of one file read across its lifetime: the slices name one file
\* (or nothing, which still runs the flush test), the clock moves past the
\* flush interval or close to the cache lifetime.
CachePath == "a.rs"
CacheSlices == {<< >>} \cup {<<ThreadUpdate(CachePath, v)>> : v \in ScoreValues}
CacheTicks == {101, 59899}

CacheNext ==
    \/ \E updates \in CacheSlices : update_threads_batch(updates)
    \/ flush_apply(CachePath)
    \/ flush_done
    \/ \E r \in Readers : get_thread_cached(r, CachePath)
    \/ \E r \in Readers : read_thread(r)
    \/ \E ms \in CacheTicks : Tick(ms)

CacheSpecInit == CtlInit /\ StoreInit /\ LibInit /\ calls = 0 /\ budget = MaxCacheCalls

\* The cache lifetime of one file.
SpecCache == CacheSpecInit /\ [][CacheNext]_vars

\* Hosts with 2, 8 and 33 logical CPUs.
CpuCounts == {2, 8, 33}

\* Configurations: the default, a lower threshold, no minimum ratio.
AnalyzerConfigs ==
    [convergence_threshold : {70, 80}, min_green_threads_ratio : {0, 70}]
\* Factor values around the bounds the decision tests.
FactorValues == {0, 80, 81, 100}
Factors ==
    [quality_stability : FactorValues, thread_health_ratio : FactorValues,
     test_pass_consistency : FactorValues, build_success_rate : FactorValues,
     trend_improvement : FactorValues]
ThreadColors == {"Red", "Orange", "Yellow", "LightGreen", "Green"}
ColorLists == UNION {[1..n -> ThreadColors] : n \in 0..MaxThreads}
\* Health scores of commits.
HealthScores == {20, 21, 50, 90}
\* Histories: every short one, and long ones made of an oldest commit, a run
\* of equal commits and a newest commit.
ShortHistories == UNION {[1..n -> HealthScores] : n \in 0..MaxShortHistory}
LongHistories ==
    {<<first>> \o [i \in 1..run |-> middle] \o <<last>> :
        first \in HealthScores, middle \in HealthScores, last \in HealthScores,
        run \in 1..MaxRun}
Histories == ShortHistories \cup LongHistories

ConvNext ==
    \/ \E factors \in Factors : call_determine_convergence(factors)
    \/ \E colors \in ColorLists, others \in {0, 100} \X {0, 100} \X {0, 100} \X {0, 100} :
           call_analyze_convergence(colors, <<100, others[2], others[3], others[4]>>)
    \/ \E commit_history \in Histories : call_predict_convergence_time(commit_history)

ConvSpecInit ==
    /\ CtlInit /\ StoreInit /\ ProcInit({8}) /\ ConvInit(AnalyzerConfigs) /\ UnitInit
    /\ calls = 0 /\ budget = MaxCalls

\* The analyzer's functions applied to inputs of every kind.
SpecConv == ConvSpecInit /\ [][ConvNext]_vars

\* Scores at, just under and between the breakpoints.
ComponentScores == {0, 29, 30, 50, 89, 90, 100}
Quadruples == ComponentScores \X ComponentScores \X ComponentScores \X ComponentScores

ColorNext == \E scores \in Quadruples : call_from_scores(scores)

ColorSpecInit == CtlInit /\ StoreInit /\ LibInit /\ calls = 0 /\ budget = MaxCalls

\* Classification of every quadruple.
SpecColor == ColorSpecInit /\ [][ColorNext]_vars

\* Window capacities below, at and above the three samples a trend needs.
WindowSizes == {0, 2, 3, 4}
\* Health scores of the commits streamed, in hundredths.
StreamScores == {50, 55, 56, 90}

StreamNext == \E health_score \in StreamScores : process_commit_streaming(health_score)

StreamSpecInit ==
    /\ CtlInit /\ StoreInit /\ ProcInit({8}) /\ ConvInit({DefaultAnalyzer})
    /\ ColorInit /\ StreamInit(WindowSizes) /\ ThreadManagerInit /\ GitInit
    /\ calls = 0 /\ budget = MaxSamples

\* One StreamingAnalyzer fed commit after commit.
SpecStream == StreamSpecInit /\ [][StreamNext]_vars

\* The file whose thread is followed; the commit of a call is its number.
ThreadPath == "a.rs"

ThreadNext ==
    \/ create_thread(ThreadPath, calls + 1)
    \/ add_thread_state(ThreadPath, calls + 1)

ThreadSpecInit == CtlInit /\ StoreInit /\ LibInit /\ calls = 0 /\ budget = MaxThreadCalls

\* One thread of a ThreadManager, created and given state after state.
SpecThreads == ThreadSpecInit /\ [][ThreadNext]_vars

\* max_attempts values below, at and above the three commits convergence needs.
AttemptLimits == {0, 1, 3, 4}
\* Health scores of the commits the loop creates, in hundredths.
CommitScores == {70, 90, 100}

GitNext ==
    \/ \E max_attempts \in AttemptLimits, git_ok \in BOOLEAN :
           infinite_monkey_iteration(max_attempts, git_ok)
    \/ \E health_score \in CommitScores, git_ok \in BOOLEAN :
           git_attempt(health_score, git_ok)

GitSpecInit == CtlInit /\ StoreInit /\ LibInit /\ calls = 0 /\ budget = MaxGitCalls

\* infinite_monkey_iteration calls on one GitWorkflowManager.
SpecGit == GitSpecInit /\ [][GitNext]_vars

ParSpecInit == CtlInit /\ StoreInit /\ LibInit /\ calls = 0 /\ budget = MaxParCalls

\* One process_commits_parallel call under every scheduling of its chunks.
SpecPar == ParSpecInit /\ [][ParNext]_vars

ProcSpecInit ==
    /\ CtlInit /\ StoreInit /\ ProcInit(CpuCounts) /\ ConvInit({DefaultAnalyzer})
    /\ UnitInit
    /\ calls = 0 /\ budget = MaxProcCalls

\* Concurrent callers of one ParallelCommitProcessor.
SpecProc == ProcSpecInit /\ [][ProcNext]_vars

\* ================================================================ claims
LoopOp == "execute_infinite_monkey_workflow"

\* The running or last call is a loop call that found its session.
InLoopCall == obs.op = LoopOp /\ obs.entry # None

LoopSession == active_sessions[obs.agent]
LoopAnchor == obs.wf_calls[1].arg[1]
LoopCalls(op) == SelectSeq(obs.wf_calls, LAMBDA c : c.op = op)
\* The limit the session had when the loop call was made.
LoopLimit == obs.entry[1].max_spiral_attempts
\* The snapshots this loop call appended to the session's history.
LoopSnapshots ==
    SubSeq(LoopSession.convergence_history, obs.entry[1].history + 1,
           Len(LoopSession.convergence_history))
\* The success condition as the specification words it.
Satisfies(snapshot) ==
    /\ snapshot.test_pass_rate >= obs.entry[1].target_convergence
    /\ snapshot.is_converged = TRUE

\* A step that enters (and, but for the loop, completes) operation op.
CallStep(op) == calls' = calls + 1 /\ obs'.op = op

\* C1: a loop call on a fresh session (attempt counter 0) with limit N never
\* continues past N attempts, and when it ends in the convergence-failure error
\* the counter is N+1, exactly N revisions were created by the call, and the
\* anchor is still the top of the session's stack.
C1_LoopTermination ==
    (InLoopCall /\ obs.entry[1].spiral_attempts = 0) =>
        /\ obs.status = "Running" =>
               LoopSession.spiral_attempts <= LoopLimit
        /\ obs.status = "ConvergenceError" =>
               /\ LoopSession.spiral_attempts = LoopLimit + 1
               /\ obs.value[1].iterations = LoopLimit + 1
               /\ Len(LoopCalls("create_commit_node")) = LoopLimit
               /\ LoopSession.revert_stack # << >>
               /\ LoopSession.revert_stack[Len(LoopSession.revert_stack)] = LoopAnchor

C1_Witness ==
    /\ InLoopCall
    /\ obs.entry[1].spiral_attempts = 0
    /\ obs.status = "ConvergenceError"
    /\ LoopLimit = 2
    /\ Len(LoopCalls("revert_to_point")) = 2

\* C2: within one loop call every backend revert targets the anchor created at
\* the start of that call, every snapshot that misses the success condition is
\* followed by such a revert, and between iterations the working tree is at the
\* anchor's revision.
C2_AnchorRevert ==
    InLoopCall =>
        /\ \A i \in 1..Len(obs.wf_calls) :
               obs.wf_calls[i].op = "revert_to_point" =>
                   obs.wf_calls[i].arg = Some(LoopAnchor)
        /\ Len(LoopCalls("revert_to_point")) =
               Cardinality({i \in 1..Len(LoopSnapshots) : ~Satisfies(LoopSnapshots[i])})
        /\ obs.status = "Running" => wf_head = LoopAnchor.commit_hash

\* A failed iteration has reverted to the anchor although an older checkpoint,
\* pushed by create_spiral_checkpoint, lies below it on the stack.
C2_Witness ==
    /\ InLoopCall
    /\ obs.status = "Running"
    /\ Len(LoopCalls("revert_to_point")) = 1
    /\ Len(LoopSession.revert_stack) = 2
    /\ LoopSession.revert_stack[1] # LoopAnchor
    /\ LoopSession.current_commit # Some(wf_head)

\* C3: a loop call returns success exactly when a snapshot it computed meets
\* test_pass_rate >= target and is_converged; that snapshot is the last one, no
\* earlier one met the condition, the attempt is within the limit, the value
\* returned is the revision created in that iteration, and no revert follows:
\* the working tree stays at the returned revision.
C3_LoopSuccess ==
    InLoopCall =>
        /\ obs.status = "Ok" <=>
               \E i \in 1..Len(LoopSnapshots) : Satisfies(LoopSnapshots[i])
        /\ obs.status = "Ok" =>
               /\ Satisfies(LoopSnapshots[Len(LoopSnapshots)])
               /\ \A i \in 1..(Len(LoopSnapshots) - 1) : ~Satisfies(LoopSnapshots[i])
               /\ LoopSession.spiral_attempts <= LoopLimit
               /\ obs.value = Some(wf_commit_count)
               /\ LoopSession.current_commit = obs.value
               /\ wf_head = obs.value[1]
               /\ obs.wf_calls[Len(obs.wf_calls)].op = "analyze_convergence"

\* Success in the second iteration, after one that failed and was reverted.
C3_Witness ==
    /\ InLoopCall
    /\ obs.status = "Ok"
    /\ Len(LoopSnapshots) = 2
    /\ Len(LoopCalls("revert_to_point")) = 1

\* C4: a successful create_spiral_checkpoint appends the point it returns to the
\* agent's stack, and a successful revert_to_last_checkpoint restores and
\* removes exactly the last point of the stack, leaving the earlier ones in
\* their order.
C4_CheckpointLifo ==
    [][ /\ (CallStep("create_spiral_checkpoint") /\ obs'.status = "Ok") =>
              active_sessions'[obs'.agent].revert_stack =
                  Append(active_sessions[obs'.agent].revert_stack, obs'.value[1])
        /\ (CallStep("revert_to_last_checkpoint") /\ obs'.status = "Ok") =>
              LET stack == active_sessions[obs'.agent].revert_stack
              IN /\ stack # << >>
                 /\ obs'.value = Some(stack[Len(stack)])
                 /\ obs'.wf_calls = << WfCall("revert_to_point", Some(stack[Len(stack)])) >>
                 /\ wf_head' = stack[Len(stack)].commit_hash
                 /\ active_sessions'[obs'.agent].revert_stack =
                        SubSeq(stack, 1, Len(stack) - 1)
      ]_vars

\* Three checkpoints pushed by one agent, two reverts: the second revert has
\* restored the second checkpoint and the first is what remains.
C4_Witness ==
    /\ obs.op = "revert_to_last_checkpoint"
    /\ obs.status = "Ok"
    /\ wf_point_count = 3
    /\ obs.value[1].snapshot_id = 2
    /\ Len(active_sessions[obs.agent].revert_stack) = 1
    /\ active_sessions[obs.agent].revert_stack[1].snapshot_id = 1

\* C5: revert_to_last_checkpoint on a session whose stack is empty returns the
\* no-revert-points error naming the agent, calls no backend operation, appends
\* no action record and leaves every session and the backend as they were.
C5_EmptyStackRevert ==
    [][ (/\ CallStep("revert_to_last_checkpoint")
         /\ obs'.agent \in DOMAIN active_sessions
         /\ active_sessions[obs'.agent].revert_stack = << >>)
        => /\ obs'.status = "NoRevertPoints"
           /\ obs'.wf_calls = << >>
           /\ action_history' = action_history
           /\ active_sessions' = active_sessions
           /\ wf_head' = wf_head
           /\ wf_commit_count' = wf_commit_count
           /\ wf_point_count' = wf_point_count
      ]_vars

\* The error returned to a session that has been used: it has a current
\* revision and a convergence history, and its stack is empty.
C5_Witness ==
    /\ obs.op = "revert_to_last_checkpoint"
    /\ obs.status = "NoRevertPoints"
    /\ active_sessions[obs.agent].current_commit # None
    /\ action_history # << >>

C7_NoSessionNoBackendCall ==
    obs.status = "NoSession" => obs.wf_calls = << >>

\* C8: start_agent_session leaves the agent with a session that has an empty
\* stack, an empty convergence history, attempt counter 0, limit 100 and no
\* current revision, whatever session the agent had before; the other sessions
\* and the action log are kept.
C8_StartSession ==
    [][ CallStep("start_agent_session") =>
           /\ obs'.status = "Ok"
           /\ DOMAIN active_sessions' = DOMAIN active_sessions \cup {obs'.agent}
           /\ active_sessions'[obs'.agent] =
                  [current_commit |-> << >>,
                   revert_stack |-> << >>,
                   convergence_history |-> << >>,
                   spiral_attempts |-> 0,
                   max_spiral_attempts |-> 100]
           /\ \A a \in DOMAIN active_sessions \ {obs'.agent} :
                  active_sessions'[a] = active_sessions[a]
           /\ action_history' = action_history
      ]_vars

\* A session restarted after its agent pushed a checkpoint: the checkpoint's
\* action record is still in the log, the stack is empty again.
C8_Witness ==
    /\ obs.op = "start_agent_session"
    /\ calls = 3
    /\ wf_point_count = 1
    /\ Len(action_history) = 1
    /\ action_history[1].agent_id = obs.agent
    /\ action_history[1].action_type = "RevertToPoint"
    /\ active_sessions[obs.agent].revert_stack = << >>

\* The positions of the updates to file_path in a flushed batch.
Positions(batch, file_path) == {i \in 1..Len(batch) : batch[i].file_path = file_path}
LastPosition(batch, file_path) ==
    CHOOSE i \in Positions(batch, file_path) :
        \A j \in Positions(batch, file_path) : j <= i

\* C9: once update_threads_batch has returned from a flush, every file named in
\* the flushed batch has a record holding the four scores of the last update to
\* that file in submission order and the color classified from them, and every
\* other file is as it was before the flush (no record, or the same record).
C9_BatchLastWriteWins ==
    (writer.pc = "idle" /\ writer.flushed # << >>) =>
        \A p \in Paths :
            IF Positions(writer.flushed, p) # {}
            THEN LET last == writer.flushed[LastPosition(writer.flushed, p)]
                 IN /\ p \in DOMAIN threads
                    /\ threads[p] =
                           [lint_score |-> last.lint_score,
                            type_check_score |-> last.type_check_score,
                            test_coverage |-> last.test_coverage,
                            functionality_score |-> last.functionality_score,
                            color_status |->
                                from_scores(last.lint_score, last.type_check_score,
                                            last.test_coverage, last.functionality_score)]
            ELSE /\ p \in DOMAIN threads <=> p \in DOMAIN writer.before
                 /\ p \in DOMAIN threads => threads[p] = writer.before[p]

\* A flush of two different updates to one file, the second of another color,
\* that also created the file's record.
C9_Witness ==
    /\ writer.pc = "idle"
    /\ Len(writer.flushed) = 2
    /\ writer.flushed[1].file_path = writer.flushed[2].file_path
    /\ writer.flushed[1].lint_score > writer.flushed[2].lint_score
    /\ writer.flushed[1].file_path \notin DOMAIN writer.before
    /\ threads[writer.flushed[1].file_path].color_status = "Red"

\* C10: from the moment update_threads_batch has accepted its updates, and so
\* when it returns, with or without a flush, the cache holds no entry written
\* before the call for any file the call names.
C10_WriteInvalidatesCache ==
    writer.call > 0 =>
        \A i \in 1..Len(writer.updates) :
            LET p == writer.updates[i].file_path
            IN p \in DOMAIN quality_cache => quality_cache[p].written >= writer.call

\* The last call was an update that did not flush; before it the reader had
\* cached the file's color, and the entry is gone.
C10_Witness ==
    /\ writer.pc = "idle"
    /\ writer.call = calls
    /\ calls = 4
    /\ writer.flushed = << >>
    /\ Len(writer.updates) = 1
    /\ reader["r1"].pc = "idle"
    /\ "result" \in DOMAIN reader["r1"]
    /\ reader["r1"].file_path = writer.updates[1].file_path
    /\ reader["r1"].result # None
    /\ reader["r1"].from_cache = FALSE
    /\ writer.updates[1].file_path \notin DOMAIN quality_cache

\* A step in which reader r enters get_thread_cached.
ReadEnters(r) ==
    /\ reader[r].pc = "idle"
    /\ calls' = calls + 1
    /\ now' = now
    /\ writer' = writer

\* A step in which reader r, past a miss, reads the canonical record.
ReadFallsThrough(r) == reader[r].pc = "miss" /\ reader'[r].pc = "idle"

\* C11: a read of p entered less than 60 s after p's cache entry was written
\* returns the entry's color at once, whatever the canonical record holds now,
\* and writes nothing; a read entered when the entry is 60 s old or older (or
\* absent) returns nothing from the cache, reads the canonical record, returns
\* its color and rewrites the entry with that color and the current time.
C11_CacheTtl ==
    [][\A r \in Readers :
         /\ ReadEnters(r) =>
               LET p == reader'[r].file_path
               IN /\ quality_cache' = quality_cache
                  /\ threads' = threads
                  /\ IF p \in DOMAIN quality_cache
                        /\ now - quality_cache[p].timestamp < 60000
                     THEN reader'[r] = [pc |-> "idle", file_path |-> p,
                                        result |-> Some(quality_cache[p].color),
                                        from_cache |-> TRUE]
                     ELSE reader'[r] = [pc |-> "miss", file_path |-> p]
         /\ ReadFallsThrough(r) =>
               LET p == reader[r].file_path
               IN /\ reader'[r].from_cache = FALSE
                  /\ threads' = threads
                  /\ IF p \in DOMAIN threads
                     THEN /\ reader'[r].result = Some(threads[p].color_status)
                          /\ p \in DOMAIN quality_cache'
                          /\ quality_cache'[p].color = threads[p].color_status
                          /\ quality_cache'[p].timestamp = now
                     ELSE /\ reader'[r].result = None
                          /\ quality_cache' = quality_cache
      ]_vars

\* A read served from the cache after a flush changed the record behind it:
\* the entry says Red, the record is Green.
C11_Witness ==
    /\ reader["r1"].pc = "idle"
    /\ "result" \in DOMAIN reader["r1"]
    /\ reader["r1"].from_cache = TRUE
    /\ reader["r1"].file_path = CachePath
    /\ reader["r1"].result = Some("Red")
    /\ CachePath \in DOMAIN threads
    /\ threads[CachePath].color_status = "Green"
    /\ CachePath \in DOMAIN quality_cache
    /\ now - quality_cache[CachePath].timestamp < CacheTtlMs

\* C12: at most K = clamp(2 x cpu_count, 4, 32) process_commits_parallel calls
\* execute their scoring work at the same time.
C12_AdmissionControl == pool_running <= ConcurrencyLimit(cpu_count)

\* The sequential map: the scores in input order, or the error of the first
\* revision the scorer fails on.
RECURSIVE SequentialMap(_, _)
SequentialMap(commits, processor_fn) ==
    IF commits = << >> THEN [ok |-> TRUE, value |-> << >>]
    ELSE IF processor_fn[Head(commits)] = "reject"
         THEN [ok |-> FALSE, error |-> <<"rejected", Head(commits)>>]
         ELSE LET rest == SequentialMap(Tail(commits), processor_fn)
              IN IF rest.ok
                 THEN [ok |-> TRUE, value |-> <<<<"scored", Head(commits)>>>> \o rest.value]
                 ELSE rest

\* C13: whatever the chunk size and the order in which the chunks are taken,
\* process_commits_parallel returns what the sequential map returns: Ok of
\* the scores in input order, or the error of the first failing revision in
\* input order and no list.
C13_ParallelIsSequentialMap ==
    par.pc = "done" => par.result = SequentialMap(par.commits, par.processor_fn)

\* Three different revisions in two chunks, the second chunk taken first, the
\* scorer failing on the second and third revision: the second's error.
C13_Witness ==
    /\ par.pc = "done"
    /\ par.commits = <<"c1", "c2", "c3">>
    /\ par.chunk_size = 2
    /\ par.started = <<2, 1>>
    /\ par.result = [ok |-> FALSE, error |-> <<"rejected", "c2">>]
    /\ par.processor_fn["c3"] = "reject"

\* C14: once more than 100 ms have passed since the last flush while updates
\* are pending, the pending updates are flushed, whether or not
\* update_threads_batch is called again.
C14_TimeTriggeredFlush ==
    (pending_updates # << >> /\ now - last_flush > FlushIntervalMs)
        ~> (pending_updates = << >>)

\* C15: the convergence error of an exhausted loop carries the attempt count
\* reached, the caller's target, and the test pass rate of the last snapshot of
\* the session's convergence history (0 when the history is empty).
C15_ExhaustionDiagnostics ==
    (InLoopCall /\ obs.status = "ConvergenceError") =>
        LET history == LoopSession.convergence_history
            error == obs.value[1]
        IN /\ error.iterations = LoopSession.spiral_attempts
           /\ error.threshold = obs.entry[1].target_convergence
           /\ error.last_score =
                  IF history = << >> THEN 0
                  ELSE history[Len(history)].test_pass_rate

\* The advice by priority: the last snapshot converged, else its pass rate is
\* under one half, else the attempts exceed half the maximum, else continue.
AdviceByPriority(session) ==
    LET history == session.convergence_history
        observed == history # << >>
    IN IF observed /\ history[Len(history)].is_converged THEN "CONVERGED"
       ELSE IF observed /\ history[Len(history)].test_pass_rate < 50 THEN "REVERT"
       ELSE IF 2 * session.spiral_attempts > session.max_spiral_attempts THEN "CHECKPOINT"
       ELSE "CONTINUE"

\* C16: suggest_next_action on a session returns the advice by priority; in
\* particular a session whose attempts exceed half its maximum is advised to
\* checkpoint whenever its last snapshot neither converged nor has a pass rate
\* under one half.
C16_SuggestPriority ==
    [][(CallStep("suggest_next_action") /\ HasSession(obs'.agent)) =>
           obs'.value = Some(AdviceByPriority(active_sessions[obs'.agent]))]_vars

ReadOnlyOps == {"suggest_next_action", "get_agent_statistics"}

\* C17: a suggest_next_action or get_agent_statistics call, succeeding or
\* failing, leaves every session, the action log and the backend as they
\* were and makes no backend call, convergence analysis included.
C17_ReadOnly ==
    [][(\E op \in ReadOnlyOps : CallStep(op)) =>
           /\ active_sessions' = active_sessions
           /\ action_history' = action_history
           /\ wf_head' = wf_head
           /\ wf_commit_count' = wf_commit_count
           /\ wf_point_count' = wf_point_count
           /\ obs'.wf_calls = << >>]_vars

\* Advice given to a session that has a checkpoint, a revision and a snapshot.
C17_Witness ==
    /\ obs.op = "suggest_next_action"
    /\ obs.status = "Ok"
    /\ action_history # << >>
    /\ active_sessions[obs.agent].revert_stack # << >>
    /\ active_sessions[obs.agent].convergence_history # << >>
    /\ active_sessions[obs.agent].current_commit # None

\* The records of the action log that carry the agent's id.
RecordsOf(agent_id) ==
    {i \in DOMAIN action_history : action_history[i].agent_id = agent_id}
SuccessesOf(agent_id) == {i \in RecordsOf(agent_id) : action_history[i].success}

\* C18: get_agent_statistics(agent) reports the number of log records of that
\* agent, the share of them that succeeded (0 when there are none; in
\* hundredths, rounded down), the session's attempt counter, the length of its
\* stack, and its last snapshot (all zero and not converged when it has none).
C18_Statistics ==
    [][(CallStep("get_agent_statistics") /\ HasSession(obs'.agent)) =>
           LET a == obs'.agent
               session == active_sessions[a]
               history == session.convergence_history
               total == Cardinality(RecordsOf(a))
               stats == obs'.value[1]
           IN /\ obs'.status = "Ok"
              /\ stats.total_actions = total
              /\ IF total = 0 THEN stats.success_rate = 0
                 ELSE /\ stats.success_rate * total <= 100 * Cardinality(SuccessesOf(a))
                      /\ 100 * Cardinality(SuccessesOf(a)) < (stats.success_rate + 1) * total
              /\ stats.spiral_attempts = session.spiral_attempts
              /\ stats.revert_points_used = Len(session.revert_stack)
              /\ stats.convergence_state =
                     IF history = << >>
                     THEN [test_pass_rate |-> 0, is_converged |-> FALSE]
                     ELSE history[Len(history)]]_vars

\* Statistics of an agent with a checkpoint and one record, while the log
\* also holds the failed records of another agent.
C18_Witness ==
    /\ obs.op = "get_agent_statistics"
    /\ obs.status = "Ok"
    /\ obs.value[1].total_actions = 1
    /\ obs.value[1].revert_points_used = 1
    /\ Len(action_history) = 3
    /\ \E i \in DOMAIN action_history :
           action_history[i].agent_id # obs.agent /\ ~action_history[i].success

\* C19: determine_convergence reports convergence exactly when the confidence
\* score is at least the threshold, quality stability is above 0.8 and thread
\* health is at least the minimum ratio; so with a positive minimum ratio a
\* thread health of 0 is never converged, whatever the other factors, and a
\* latest commit without a healthy thread has thread health 0.
C19_ConvergenceGate ==
    /\ conv.op \in {"determine_convergence", "analyze_convergence"} =>
          LET f == conv.factors
              r == conv.result
          IN /\ r.is_converged <=>
                    /\ r.confidence_score >= 100 * analyzer.convergence_threshold
                    /\ f.quality_stability > 80
                    /\ f.thread_health_ratio >= analyzer.min_green_threads_ratio
             /\ (f.thread_health_ratio = 0 /\ analyzer.min_green_threads_ratio > 0)
                    => ~r.is_converged
    /\ conv.op = "analyze_convergence" =>
          ((\A i \in DOMAIN conv.colors : conv.colors[i] \notin {"Green", "LightGreen"})
               => conv.factors.thread_health_ratio = 0)

\* No healthy thread in the latest commit, the other four factors all 1.0,
\* a confidence of 0.75 against a threshold of 0.7: not converged.
C19_Witness ==
    /\ conv.op = "analyze_convergence"
    /\ conv.colors = <<"Red", "Yellow">>
    /\ conv.factors = [quality_stability |-> 100, thread_health_ratio |-> 0,
                       test_pass_consistency |-> 100, build_success_rate |-> 100,
                       trend_improvement |-> 100]
    /\ analyzer = [convergence_threshold |-> 70, min_green_threads_ratio |-> 70]
    /\ conv.result = [is_converged |-> FALSE, confidence_score |-> 7500]

\* C20: over the last up to 10 health scores predict_convergence_time returns
\* None for fewer than 3 commits; None when the newest score is not above the
\* oldest of the window, even at or past the threshold; else Some(0) when the
\* newest score is at or past the threshold; else the least number of steps of
\* (newest - oldest) / count that cover threshold - newest, or None when that
\* number exceeds 100.
C20_PredictConvergenceTime ==
    conv.op = "predict_convergence_time" =>
        LET h == conv.commit_history
            count == IF Len(h) < 10 THEN Len(h) ELSE 10
            newest == h[Len(h)]
            oldest == h[Len(h) - count + 1]
            missing == analyzer.convergence_threshold - newest
            steps == CHOOSE m \in 1..1000 :
                         /\ m * (newest - oldest) >= missing * count
                         /\ (m - 1) * (newest - oldest) < missing * count
        IN conv.result =
               IF Len(h) < 3 THEN << >>
               ELSE IF newest <= oldest THEN << >>
               ELSE IF missing <= 0 THEN <<0>>
               ELSE IF steps > 100 THEN << >>
               ELSE <<steps>>

\* Eleven commits: the oldest, outside the window, is low; the ten of the
\* window are equal and past the threshold. No trend, so None and not Some(0).
C20_Witness ==
    /\ conv.op = "predict_convergence_time"
    /\ Len(conv.commit_history) = 11
    /\ conv.commit_history[1] = 20
    /\ \A i \in 2..11 : conv.commit_history[i] = 90
    /\ analyzer.convergence_threshold = 80
    /\ conv.result = << >>

Sum(scores) == scores[1] + scores[2] + scores[3] + scores[4]
Classify(scores) == from_scores(scores[1], scores[2], scores[3], scores[4])

\* C21: the color of a quadruple is that of every quadruple with the same
\* mean, and a quadruple that is at least as high in every component has a
\* discrete score at least as high.
C21_ClassifyMonotonic ==
    classified.op = "from_scores" =>
        \A other \in Quadruples :
            /\ Sum(other) = Sum(classified.scores) => Classify(other) = classified.color
            /\ (\A i \in 1..4 : other[i] >= classified.scores[i])
                   => to_score(Classify(other)) >= classified.score

\* A quadruple on the Yellow breakpoint, with quadruples of the same mean and
\* higher ones to compare it to.
C21_Witness ==
    /\ classified.op = "from_scores"
    /\ classified.scores = <<100, 50, 50, 0>>
    /\ classified.color = "Yellow"
    /\ Classify(<<50, 50, 50, 50>>) = "Yellow"
    /\ to_score(Classify(<<100, 90, 90, 0>>)) > classified.score

\* C22: a mean of at least 0.9 is Green, of at least 0.7 LightGreen, of at
\* least 0.5 Yellow, of at least 0.3 Orange, anything lower Red, and the
\* discrete scores of these colors are 1.0, 0.8, 0.6, 0.4 and 0.2.
C22_Boundaries ==
    classified.op = "from_scores" =>
        LET total == Sum(classified.scores)
        IN /\ classified.color = "Green" <=> total >= 4 * 90
           /\ classified.color = "LightGreen" <=> (total >= 4 * 70 /\ total < 4 * 90)
           /\ classified.color = "Yellow" <=> (total >= 4 * 50 /\ total < 4 * 70)
           /\ classified.color = "Orange" <=> (total >= 4 * 30 /\ total < 4 * 50)
           /\ classified.color = "Red" <=> total < 4 * 30
           /\ <<classified.color, classified.score>> \in
                  {<<"Green", 100>>, <<"LightGreen", 80>>, <<"Yellow", 60>>,
                   <<"Orange", 40>>, <<"Red", 20>>}

\* Unequal scores whose mean is exactly 0.7: LightGreen, 0.8.
C22_Witness ==
    /\ classified.op = "from_scores"
    /\ classified.scores = <<90, 90, 100, 0>>
    /\ classified.color = "LightGreen"
    /\ classified.score = 80
\* WindowTrend: the trend the two halves of the current window show.
WindowTrend(recent_samples) ==
    LET len == Len(recent_samples)
        mid_point == len \div 2
        first_sum == SumSeq(SubSeq(recent_samples, 1, mid_point))
        second_sum == SumSeq(SubSeq(recent_samples, mid_point + 1, len))
        scaled_diff == second_sum * mid_point - first_sum * (len - mid_point)
        margin == 5 * mid_point * (len - mid_point)
    IN IF scaled_diff > margin THEN "Improving"
       ELSE IF scaled_diff < -margin THEN "Degrading"
       ELSE "Stable"

\* C23: after each process_commit_streaming call, for every window capacity,
\* the reported trend is Insufficient when fewer than 3 samples have been
\* processed, and otherwise is Improving, Degrading or Stable as the
\* difference of the averages of the two halves of the current window is above
\* 0.05, below -0.05 or in between.
C23_StreamingTrend ==
    stream.result # None =>
        stream.result[1].trend_direction =
            IF stream.sample_count < 3
            THEN "Insufficient"
            ELSE WindowTrend(stream.recent_samples)

\* The last n elements of a sequence, all of it when it is shorter.
LastN(seq, n) == IF Len(seq) > n THEN SubSeq(seq, Len(seq) - n + 1, Len(seq)) ELSE seq

\* C24: after any sequence of add_thread_state calls on a path, the thread's
\* history holds at most 50 entries, and they are exactly the most recently
\* given states, in the order they were given (the oldest are evicted first).
C24_HistoryCap ==
    \A file_path \in DOMAIN thread_manager.active_threads :
        LET history == thread_manager.active_threads[file_path].history
        IN /\ Len(history) <= 50
           /\ history = LastN(thread_manager.given[file_path], 50)

\* A thread that was given 52 states keeps the last 50 of them.
C24_Witness ==
    /\ ThreadPath \in DOMAIN thread_manager.active_threads
    /\ Len(thread_manager.given[ThreadPath]) = 52
    /\ Len(thread_manager.active_threads[ThreadPath].history) = 50
    /\ thread_manager.active_threads[ThreadPath].history[1] =
           thread_manager.given[ThreadPath][3]

\* C25: infinite_monkey_iteration(max_attempts) either returns Ok(commit), and
\* then the commit's own convergence_metrics.is_converged is true and its
\* health_score is above 0.8, or fails with a ConvergenceError whose iterations
\* equal max_attempts after creating exactly max_attempts commits; it never
\* runs more than max_attempts attempts.
C25_MonkeyIteration ==
    LET result == git_workflow.result
    IN /\ result.status = "Ok" =>
              /\ result.commit.convergence_metrics.is_converged
              /\ result.commit.health_score > 80
       /\ result.status = "ConvergenceError" =>
              /\ result.iterations = result.max_attempts
              /\ git_workflow.commits - result.first = result.max_attempts
       /\ result.status # "new" => result.attempts <= result.max_attempts

\* ------------------------------------------------------------ error taxonomy
\* GdkError::category, errors.rs lines 194-206.
category(error) ==
    CASE error.kind = "GitError" -> "git"
      [] error.kind = "FileSystemError" -> "filesystem"
      [] error.kind = "ValidationError" -> "validation"
      [] error.kind = "ConvergenceError" -> "convergence"
      [] error.kind = "ThreadError" -> "thread"
      [] error.kind = "AgentError" -> "agent"
      [] error.kind = "SerializationError" -> "serialization"
      [] error.kind = "ConfigurationError" -> "configuration"
      [] error.kind = "VisualizationError" -> "visualization"

\* GdkError::is_recoverable, errors.rs lines 209-227.
is_recoverable(error) ==
    CASE error.kind = "GitError" -> error.source = "Locked"
      [] error.kind = "FileSystemError" -> error.source \in {"PermissionDenied", "TimedOut"}
      [] error.kind = "ValidationError" -> FALSE
      [] error.kind = "ConvergenceError" -> TRUE
      [] error.kind = "ThreadError" -> TRUE
      [] error.kind = "AgentError" -> TRUE
      [] error.kind = "SerializationError" -> FALSE
      [] error.kind = "ConfigurationError" -> FALSE
      [] error.kind = "VisualizationError" -> TRUE

\* The variants of GdkError.
GdkErrorKinds ==
    {"GitError", "FileSystemError", "ValidationError", "ConvergenceError", "ThreadError",
     "AgentError", "SerializationError", "ConfigurationError", "VisualizationError"}

\* get_session / get_session_mut, agent.rs lines 513-523: the anyhow::Error
\* built for an agent that has no session.
NoActiveSession(agent_id) ==
    [kind |-> "anyhow::Error", message |-> <<"No active session for agent", agent_id>>]

\* impl From<anyhow::Error> for GdkError, errors.rs lines 287-299.
FromAnyhow(err) ==
    [kind |-> "ValidationError",
     rule |-> "anyhow_conversion",
     context |-> err.message,
     source |-> "Other"]

\* The operations declared to return GdkResult; in them the ? on the lookup
\* converts the anyhow::Error with From. The others return it as it is.
GdkResultOps ==
    {"start_agent_session", "execute_infinite_monkey_workflow", "create_spiral_checkpoint",
     "revert_to_last_checkpoint", "validate_and_commit"}

\* The error an operation returns when the lookup of the agent's session fails.
LookupFailure(op, agent_id) ==
    IF op \in GdkResultOps
    THEN FromAnyhow(NoActiveSession(agent_id))
    ELSE NoActiveSession(agent_id)

\* C26: the error a controller operation returns for a missing session is of
\* the agent category and is retryable (is_recoverable is true).
C26_MissingSessionError ==
    obs.status = "NoSession" =>
        LET error == LookupFailure(obs.op, obs.agent)
        IN /\ error.kind \in GdkErrorKinds
           /\ category(error) = "agent"
           /\ is_recoverable(error)

\* C27: create_spiral_checkpoint and revert_to_last_checkpoint each, when they
\* succeed, set the session's current revision to the revision of the
\* checkpoint created or restored and append exactly one action record; the
\* revert also removes the restored checkpoint from the stack.
C27_CheckpointWrappers ==
    [][ /\ (CallStep("create_spiral_checkpoint") /\ obs'.status = "Ok") =>
              /\ active_sessions'[obs'.agent].current_commit =
                     Some(obs'.value[1].commit_hash)
              /\ Len(action_history') = Len(action_history) + 1
        /\ (CallStep("revert_to_last_checkpoint") /\ obs'.status = "Ok") =>
              /\ active_sessions'[obs'.agent].current_commit =
                     Some(obs'.value[1].commit_hash)
              /\ Len(action_history') = Len(action_history) + 1
              /\ active_sessions'[obs'.agent].revert_stack =
                     PopRest(active_sessions[obs'.agent].revert_stack)
      ]_vars

\* A pass of the loop that created a commit, failed the success condition and
\* completed the revert to the anchor: the loop goes on.
FailedIterationStep ==
    /\ call.pc = "loop"
    /\ call'.pc = "loop"
    /\ wf_commit_count' = wf_commit_count + 1

\* C28: in a loop iteration that creates revision R1 and fails the success
\* condition, once the revert to the anchor has completed the session's
\* current_commit no longer names R1: it names the commit the working state
\* was restored to.
C28_CurrentRevisionAfterRevert ==
    [][ FailedIterationStep =>
            /\ active_sessions'[call.agent].current_commit # Some(wf_commit_count')
            /\ active_sessions'[call.agent].current_commit = Some(wf_head')
      ]_vars

\* A pass of the loop that got past the analysis: it returned the commit, or
\* went on to the revert.
IterationCompleted ==
    /\ call.pc = "loop"
    /\ Len(obs'.wf_calls) > Len(obs.wf_calls)
    /\ \/ obs'.status = "Ok"
       \/ obs'.wf_calls[Len(obs'.wf_calls)].op = "revert_to_point"

\* A get_convergence_status call that returned the analysis.
StatusQueried == CallStep("get_convergence_status") /\ obs'.status = "Ok"

StepAgent == IF call.pc = "loop" THEN call.agent ELSE obs'.agent

\* C30: the action log is append-only: after any controller operation, failing
\* ones and start_agent_session included, every record that was in the log
\* is still there, at the same position and with the same fields, and each
\* record appended carries the id of the agent the operation was invoked for.
C30_ActionLogAppendOnly ==
    [][ /\ Len(action_history') >= Len(action_history)
        /\ SubSeq(action_history', 1, Len(action_history)) = action_history
        /\ \A i \in (Len(action_history) + 1)..Len(action_history') :
               action_history'[i].agent_id = StepAgent
      ]_vars

\* A validate_and_commit the CI gate failed: its two records follow the
\* record of the checkpoint made before it.
C30_Witness ==
    /\ obs.op = "validate_and_commit"
    /\ obs.status = "CiFailed"
    /\ Len(action_history) = 3
    /\ action_history[1].action_type = "RevertToPoint"
    /\ action_history[3].action_type = "QualityValidation"
    /\ \A i \in 1..3 : action_history[i].agent_id = obs.agent

\* The record that holds the four scores of one update and their color.
RecordOf(update) ==
    [lint_score |-> update.lint_score,
     type_check_score |-> update.type_check_score,
     test_coverage |-> update.test_coverage,
     functionality_score |-> update.functionality_score,
     color_status |-> from_scores(update.lint_score, update.type_check_score,
                                  update.test_coverage, update.functionality_score)]

ReadReturns(r) ==
    \/ ReadEnters(r) /\ reader'[r].pc = "idle"
    \/ ReadFallsThrough(r)

\* C32: under every interleaving of update_threads_batch and
\* get_thread_cached calls, once a flush has applied an update to a file,
\* get_thread_cached returns for that file the color classified from the
\* update's scores, which is the color of the file's record, never a color
\* cached from the record as it was before the update.
C32_NoStaleColor ==
    [][ \A r \in Readers :
          (ReadReturns(r) /\ reader'[r].file_path \in DOMAIN threads) =>
              reader'[r].result = Some(threads[reader'[r].file_path].color_status)
      ]_vars

\* C33: every execute_infinite_monkey_workflow call that finds the session
\* pushes exactly one checkpoint, the anchor, and never pops: entering the
\* loop appends the anchor to the session's stack, no pass of the loop changes
\* any stack, and so on return (success, exhaustion or backend error inside
\* an iteration) the stack is the stack before the call with the anchor on top.
C33_LoopStackEffect ==
    [][ /\ (CallStep(LoopOp) /\ obs'.entry # None) =>
              /\ active_sessions'[obs'.agent].revert_stack =
                     Append(active_sessions[obs'.agent].revert_stack,
                            obs'.wf_calls[1].arg[1])
              /\ obs'.wf_calls[1].arg[1].snapshot_id = wf_point_count'
        /\ call.pc = "loop" =>
              /\ DOMAIN active_sessions' = DOMAIN active_sessions
              /\ \A a \in DOMAIN active_sessions :
                     active_sessions'[a].revert_stack = active_sessions[a].revert_stack
        /\ InLoopCall =>
              LET stack == LoopSession.revert_stack
              IN stack # << >> /\ stack[Len(stack)] = LoopAnchor
      ]_vars

\* The second loop call on a session has returned on exhaustion: the stack
\* holds the anchors of both calls, the second on top.
C33_Witness ==
    /\ InLoopCall
    /\ obs.status = "ConvergenceError"
    /\ call.pc = "idle"
    /\ Len(LoopSession.revert_stack) = 2
    /\ LoopSession.revert_stack[1].snapshot_id = 1
    /\ LoopSession.revert_stack[2] = LoopAnchor
    /\ LoopAnchor.snapshot_id = 2

\* C34: revert_to_last_checkpoint takes the top checkpoint off the stack
\* before it asks the backend to revert: when the backend's revert then fails
\* the call returns that error with the stack one entry shorter, the
\* session's current_commit unchanged and no action record appended.
C34_RevertFailureKeepsPop ==
    [][ (CallStep("revert_to_last_checkpoint") /\ obs'.status = "BackendError") =>
            LET before == active_sessions[obs'.agent]
                after == active_sessions'[obs'.agent]
            IN /\ before.revert_stack # << >>
               /\ obs'.wf_calls =
                      << WfCall("revert_to_point",
                                Some(before.revert_stack[Len(before.revert_stack)])) >>
               /\ after.revert_stack =
                      SubSeq(before.revert_stack, 1, Len(before.revert_stack) - 1)
               /\ after.current_commit = before.current_commit
               /\ action_history' = action_history
               /\ wf_head' = wf_head
      ]_vars

\* A session at commit 1 with two checkpoints whose revert failed in the
\* backend: one checkpoint is left, the session is still at commit 1 and the
\* log holds the four records made before the call.
C34_Witness ==
    /\ obs.op = "revert_to_last_checkpoint"
    /\ obs.status = "BackendError"
    /\ wf_point_count = 2
    /\ Len(active_sessions[obs.agent].revert_stack) = 1
    /\ active_sessions[obs.agent].revert_stack[1].snapshot_id = 1
    /\ active_sessions[obs.agent].current_commit = Some(1)
    /\ Len(action_history) = 4

\* C35: every completed iteration of the loop, one that returns the commit or
\* goes on after its revert, appends exactly one InfiniteMonkeyIteration
\* record whose success flag is true and whose commit_after is the commit
\* created in the iteration, whether or not the success condition was met;
\* an iteration in which the backend fails, and the increment that exhausts
\* the budget, append no record.
C35_IterationRecords ==
    [][ call.pc = "loop" =>
            IF obs'.status = "Ok" \/ call'.pc = "loop"
            THEN /\ Len(action_history') = Len(action_history) + 1
                 /\ SubSeq(action_history', 1, Len(action_history)) = action_history
                 /\ LET record == action_history'[Len(action_history')]
                    IN /\ record.agent_id = call.agent
                       /\ record.action_type = "InfiniteMonkeyIteration"
                       /\ record.success
                       /\ record.commit_after = Some(wf_commit_count')
                       /\ wf_commit_count' = wf_commit_count + 1
            ELSE action_history' = action_history
      ]_vars

\* A step of a controller operation: one that enters an operation, or a pass
\* of the running loop.
ControllerStep == calls' = calls + 1 \/ call.pc = "loop"

\* C36: a controller operation invoked for agent A, successful or not, leaves
\* the session of every other agent B unchanged (stack, convergence history,
\* attempt counter, current commit, maximum), and the statistics of B count
\* no action record produced on behalf of A: they are what they were.
C36_SessionIsolation ==
    [][ ControllerStep =>
            \A b \in DOMAIN active_sessions :
                b # StepAgent =>
                    /\ b \in DOMAIN active_sessions'
                    /\ active_sessions'[b] = active_sessions[b]
                    /\ Statistics(b)' = Statistics(b)
      ]_vars

\* Two agents have sessions; a checkpoint made for agent-1 has left one record
\* in the log, agent-2's session is as it was built and its statistics count
\* no action.
C36_Witness ==
    /\ obs.op = "create_spiral_checkpoint"
    /\ obs.status = "Ok"
    /\ obs.agent = "agent-1"
    /\ Len(action_history) = 1
    /\ "agent-2" \in DOMAIN active_sessions
    /\ active_sessions["agent-2"] = NewSession
    /\ Len(active_sessions["agent-1"].revert_stack) = 1
    /\ Statistics("agent-2").total_actions = 0
    /\ Statistics("agent-1").total_actions = 1

\* The health scores of the last up to 10 commits, oldest first.
LastScores(commit_history) ==
    LET scores == [i \in 1..Len(commit_history) |-> commit_history[i].health_score]
    IN LastN(scores, 10)

\* C37: analyze_convergence reports is_converged = true only if the history
\* has at least 3 commits, the mean health score of the 3 newest commits is
\* above 0.8, and across the last up to 10 commits the health score never
\* decreases from an older commit to the next newer one.
C37_ConvergedOnlyIfImproving ==
    LET commit_history == git_workflow.commit_history
        scores == LastScores(commit_history)
        n == Len(scores)
    IN analyze_convergence(commit_history).is_converged =>
           /\ Len(commit_history) >= 3
           /\ scores[n] + scores[n - 1] + scores[n - 2] > 3 * 80
           /\ \A i \in 1..(n - 1) : scores[i] <= scores[i + 1]

\* C38: after any number of process_commit_streaming calls on an analyzer of
\* window size W the window holds at most W samples, the most recent
\* min(n, W) health scores in arrival order, and sample_count is the number
\* of calls made: each call counts one sample and leaves in the window the
\* last W of the samples it held followed by the new one.
C38_StreamingBounded ==
    [][ stream' # stream =>
            LET health_score == stream'.quality_sum - stream.quality_sum
            IN /\ stream'.window_size = stream.window_size
               /\ stream'.sample_count = stream.sample_count + 1
               /\ stream'.sample_count = calls'
               /\ stream'.recent_samples =
                      LastN(Append(stream.recent_samples, health_score), stream.window_size)
               /\ Len(stream'.recent_samples) =
                      Min(stream'.sample_count, stream.window_size)
      ]_vars

\* Four commits streamed through a window of two: the last two are held.
C38_Witness ==
    /\ stream.window_size = 2
    /\ stream.sample_count = 4
    /\ stream.quality_sum = 50 + 56 + 55 + 90
    /\ stream.recent_samples = <<55, 90>>

\* C39: whenever an update_threads_batch call has returned, the pending buffer
\* holds fewer than 50 updates: a call that brings the buffer to 50 or more
\* flushes all of them before it returns and leaves the buffer empty.
C39_SizeTriggeredFlush ==
    /\ writer.pc = "idle" => Len(pending_updates) < 50
    /\ writer.pc = "flush" =>
           /\ pending_updates = << >>
           /\ Len(writer.flushed) >= 50 \/ now - last_flush > FlushIntervalMs
    /\ (writer.pc = "idle" /\ writer.call > 0 /\ writer.flushed = << >>) =>
           /\ Len(pending_updates) >= Len(writer.updates)
           /\ SubSeq(pending_updates,
                     Len(pending_updates) - Len(writer.updates) + 1,
                     Len(pending_updates)) = writer.updates
    /\ (writer.pc = "idle" /\ writer.flushed # << >>) =>
           /\ pending_updates = << >>
           /\ \A i \in 1..Len(writer.flushed) :
                  writer.flushed[i].file_path \in DOMAIN threads

\* A call of 25 updates on a buffer of 25 has returned: the 50 were flushed
\* and the buffer is empty.
C39_Witness ==
    /\ writer.pc = "idle"
    /\ writer.call = 2
    /\ Len(writer.updates) = 25
    /\ Len(writer.flushed) = 50
    /\ pending_updates = << >>
    /\ now = last_flush

\* C40: the attempt counter belongs to the session, not to the loop call: no
\* operation other than start_agent_session decreases it, entering the loop
\* does not reset it, and a loop call on a session whose counter is already at
\* or above the maximum fails with the convergence error after exactly one
\* increment, having pushed its anchor and created no commit.
C40_AttemptCounter ==
    [][ /\ \A a \in DOMAIN active_sessions :
               (a \in DOMAIN active_sessions'
                /\ ~(CallStep("start_agent_session") /\ obs'.agent = a)) =>
                   active_sessions'[a].spiral_attempts >= active_sessions[a].spiral_attempts
        /\ (CallStep(LoopOp) /\ obs'.entry # None) =>
               active_sessions'[obs'.agent].spiral_attempts =
                   active_sessions[obs'.agent].spiral_attempts
        /\ (/\ InLoopCall
            /\ call.pc = "idle"
            /\ obs.entry[1].spiral_attempts >= obs.entry[1].max_spiral_attempts) =>
               /\ obs.status = "ConvergenceError"
               /\ obs.value[1].iterations = obs.entry[1].spiral_attempts + 1
               /\ LoopSession.spiral_attempts = obs.entry[1].spiral_attempts + 1
               /\ obs.wf_calls = << WfCall("create_revert_point", Some(LoopAnchor)) >>
               /\ LoopSession.revert_stack[Len(LoopSession.revert_stack)] = LoopAnchor
      ]_vars

\* The second loop call on a session of maximum 1, entered with the counter
\* at 2: it failed at 3 with its anchor pushed and no commit made by it.
C40_Witness ==
    /\ InLoopCall
    /\ call.pc = "idle"
    /\ obs.status = "ConvergenceError"
    /\ obs.entry[1].max_spiral_attempts = 1
    /\ obs.entry[1].spiral_attempts = 2
    /\ LoopSession.spiral_attempts = 3
    /\ Len(LoopSession.revert_stack) = 2
    /\ Len(obs.wf_calls) = 1
    /\ wf_commit_count = 1

====
